---- MODULE Spec2Model ----
(***************************************************************************)
(* Model of the Mandelbrot viewer: the GameScene (view bounds, zoom        *)
(* history, pointer handlers, deferred renders) and the parts of           *)
(* MandelbrotRenderer the scene depends on (aspect-ratio adjustment and    *)
(* pixel-to-plane mapping); and one call of MandelbrotRenderer.render(),   *)
(* pass by pass of its loops: aspect-ratio adjustment, pixel loop,         *)
(* escape-time iteration, colour mapping and the writes to the buffer.     *)
(*                                                                         *)
(* Numbers of the complex plane and of the screen are exact rationals      *)
(* [n |-> numerator, d |-> denominator > 0] in lowest terms; the colours   *)
(* of getColor, and the view bounds of a deep zoom, are computed in IEEE   *)
(* 754 binary64 arithmetic, as the program computes them.  Which of the    *)
(* references to ViewBounds objects hold the same object is kept in the    *)
(* variable `aliases'; text objects are told apart by an id.               *)
(***************************************************************************)
EXTENDS Integers, Sequences, FiniteSets, TLC

VARIABLES
    created,            \* create() has run (resize listener registered)
    camW, camH,         \* this.cameras.main.width / height
    currentViewBounds,  \* GameScene.currentViewBounds
    zoomHistory,        \* GameScene.zoomHistory
    aliases,            \* pairs of ViewBounds references to one same object
    mandelbrotRenderer, \* GameScene.mandelbrotRenderer
    mandelbrotImage,    \* GameScene.mandelbrotImage
    selectionSquare,    \* GameScene.selectionSquare
    isDrawing, startX, startY,
    currentSquareSize, currentSquareX, currentSquareY,
    drawnInDrag,        \* whether updateSelectionSquare ran since the left
                        \* button went down: "yes", "no", or "unobserved"
    loadingText,        \* GameScene.loadingText
    texts,              \* ids of the text objects added and not destroyed
    timers,             \* pending this.time.delayedCall(100, ...) callbacks
    images,             \* number of image objects added and not destroyed
    textureKeys,        \* keys in this.textures
    lastViewCall,       \* outcome of the latest zoomToSelection / zoomOut call
    leftHeld, rightHeld,\* buttons of the pointer currently pressed
    renderer,           \* a MandelbrotRenderer whose render() is followed
    pc,                 \* where that call of render() stands
    imageData,          \* MandelbrotRenderer.imageData
    adjusted,           \* render(): adjustedRealMin .. adjustedImagMax
    pixelX, pixelY,     \* render(): x and y of the pixel loops
    real, imag,         \* mandelbrotIterations: the point
    zReal, zImag, iter, \* mandelbrotIterations: z and the loop counter i
    iterations,         \* render(): what mandelbrotIterations returned
    written,            \* the writes of pixels to the buffer, in their order
    renders,            \* number of calls of render() that have returned
    returned            \* the object a caller holds from getViewBounds()

sceneVars == <<created, camW, camH, currentViewBounds, zoomHistory, aliases,
               mandelbrotRenderer, mandelbrotImage, selectionSquare,
               isDrawing, startX, startY,
               currentSquareSize, currentSquareX, currentSquareY, drawnInDrag,
               loadingText, texts, timers, images, textureKeys,
               lastViewCall, leftHeld, rightHeld>>

kernelVars == <<real, imag, zReal, zImag, iter>>

callerVars == <<renders, returned>>

renderVars == <<renderer, pc, imageData, adjusted, pixelX, pixelY,
                kernelVars, iterations, written, callerVars>>

vars == <<sceneVars, renderVars>>

----------------------------------------------------------------------------
(* Bounds of the model *)

MaxDepth == 2
MaxTimers == 2
MaxTexts == 2
\* a render whose buffer has more pixels than this is followed up to its
\* pixel loop only
MaxPixels == 6
\* calls of render() followed on one renderer
MaxRenders == 2
\* zoom-ins of a scene whose view bounds are kept in binary64
MaxDeepDepth == 9

(* Numbers the program fixes *)

\* maxIterations the scene gives every renderer
RenderIterations == 100
\* a released square zooms only if its size exceeds this
MinSquareSize == 10
\* setDepth of the selection graphics
SelectionDepth == 1000

----------------------------------------------------------------------------
(* IEEE 754 binary64 arithmetic, on natural numbers of any size kept as   *)
(* sequences of limbs                                                      *)

\* base of the limbs of a natural number kept as a sequence, lowest first
LimbBase == 32768

LimbBits == 15

\* the natural numbers as sequences of limbs
Limbs == Seq(Nat)

\* mantissa bits of an IEEE 754 binary64 number
MantissaBits == 53

\* the binary64 numbers s * m * 2^e, m odd; zero, the infinities and NaN
Doubles == [s : {-1, 0, 1}, m : Limbs, e : Int]

DZero == [s |-> 1, m |-> <<>>, e |-> 0]

DInfinity(s) == [s |-> s, m |-> <<>>, e |-> 1]

DNaN == [s |-> 0, m |-> <<>>, e |-> 2]

IsNaN(a) == a.s = 0

IsInfinite(a) == a.m = <<>> /\ a.e = 1

IsZero(a) == a.m = <<>> /\ a.e = 0

\* the numbers: rationals (a denominator 0 is infinite) and binary64 numbers
Numbers == [n : Int, d : Nat] \cup Doubles

\* a is kept as a binary64 number
IsDouble(a) == "m" \in DOMAIN a

\* The arithmetic is one function of the operation and its operands, which
\* are numbers, natural numbers as limbs, and integers: the operands of an
\* application are values, and none is computed twice.
Binary64[op \in STRING, numbers \in Seq(Numbers), limbs \in Seq(Limbs), ints \in Seq(Int)] ==
    LET NNorm(a) == Binary64["NNorm", <<>>, <<a>>, <<>>]
        NOfInt(i) == Binary64["NOfInt", <<>>, <<>>, <<i>>]
        NToInt(a) == Binary64["NToInt", <<>>, <<a>>, <<>>]
        NAddC(a, b, c) == Binary64["NAddC", <<>>, <<a, b>>, <<c>>]
        NAdd(a, b) == Binary64["NAdd", <<>>, <<a, b>>, <<>>]
        NSubB(a, b, borrow) == Binary64["NSubB", <<>>, <<a, b>>, <<borrow>>]
        NSub(a, b) == Binary64["NSub", <<>>, <<a, b>>, <<>>]
        NCmpAt(a, b, i) == Binary64["NCmpAt", <<>>, <<a, b>>, <<i>>]
        NCmp(a, b) == Binary64["NCmp", <<>>, <<a, b>>, <<>>]
        NMulSmallC(a, k, c) == Binary64["NMulSmallC", <<>>, <<a>>, <<k, c>>]
        NMulSmall(a, k) == Binary64["NMulSmall", <<>>, <<a>>, <<k>>]
        NShlLimbs(a, k) == Binary64["NShlLimbs", <<>>, <<a>>, <<k>>]
        NMul(a, b) == Binary64["NMul", <<>>, <<a, b>>, <<>>]
        NDivSmallAt(a, k, i, r) ==
            Binary64["NDivSmallAt", <<>>, <<a>>, <<k, i, r>>]
        NDivSmall(a, k) == Binary64["NDivSmall", <<>>, <<a>>, <<k>>]
        NModSmallAt(a, k, i, r) ==
            Binary64["NModSmallAt", <<>>, <<a>>, <<k, i, r>>]
        NModSmall(a, k) == Binary64["NModSmall", <<>>, <<a>>, <<k>>]
        NShl(a, k) == Binary64["NShl", <<>>, <<a>>, <<k>>]
        NShr(a, k) == Binary64["NShr", <<>>, <<a>>, <<k>>]
        BitLen(x) == Binary64["BitLen", <<>>, <<>>, <<x>>]
        NBitLen(a) == Binary64["NBitLen", <<>>, <<a>>, <<>>]
        NBit(a, i) == Binary64["NBit", <<>>, <<a>>, <<i>>]
        TrailingZeros(x) == Binary64["TrailingZeros", <<>>, <<>>, <<x>>]
        NTrailingZeros(a) == Binary64["NTrailingZeros", <<>>, <<a>>, <<>>]
        NDigit(target, den, j, c) ==
            Binary64["NDigit", <<>>, <<target, den>>, <<j, c>>]
        NDigitOf(x, den) == Binary64["NDigitOf", <<>>, <<x, den>>, <<>>]
        NDivTake(q, x, den, digit) ==
            Binary64["NDivTake", <<>>, <<q, x, den>>, <<digit>>]
        NDivPut(q, x, den) == Binary64["NDivPut", <<>>, <<q, x, den>>, <<>>]
        NDivLimbs(num, den, i, qr) ==
            Binary64["NDivLimbs", <<>>, <<num, den>> \o qr, <<i>>]
        NDivMod(num, den) == Binary64["NDivMod", <<>>, <<num, den>>, <<>>]
        CanonicalAt(s, m, e, z) ==
            Binary64["CanonicalAt", <<>>, <<m>>, <<s, e, z>>]
        Canonical(s, m, e) == Binary64["Canonical", <<>>, <<m>>, <<s, e>>]
        DRoundUp(s, q, e, sticky, c) ==
            Binary64["DRoundUp", <<>>, <<q>>, <<s, e, sticky, c>>]
        DRoundAt(s, n, e, sticky, sh, q) ==
            Binary64["DRoundAt", <<>>, <<n, q>>, <<s, e, sticky, sh>>]
        DRoundBits(s, n, e, sticky, bits) ==
            Binary64["DRoundBits", <<>>, <<n>>, <<s, e, sticky, bits>>]
        DRound(s, n, e, sticky) ==
            Binary64["DRound", <<>>, <<n>>, <<s, e, sticky>>]
        DInt(i) == Binary64["DInt", <<>>, <<>>, <<i>>]
        DNeg(a) == Binary64["DNeg", <<a>>, <<>>, <<>>]
        DAbs(a) == Binary64["DAbs", <<a>>, <<>>, <<>>]
        DSubAt(s, x, y, e, c) ==
            Binary64["DSubAt", <<>>, <<x, y>>, <<s, e, c>>]
        DAddAt(sa, x, sb, y, e) ==
            Binary64["DAddAt", <<>>, <<x, y>>, <<sa, sb, e>>]
        DAddFinite(a, b) == Binary64["DAddFinite", <<a, b>>, <<>>, <<>>]
        DAdd(a, b) == Binary64["DAdd", <<a, b>>, <<>>, <<>>]
        DSub(a, b) == Binary64["DSub", <<a, b>>, <<>>, <<>>]
        DMul(a, b) == Binary64["DMul", <<a, b>>, <<>>, <<>>]
        DRoundQuotient(s, qr, e) ==
            Binary64["DRoundQuotient", <<>>, <<>> \o qr, <<s, e>>]
        DDivSmall(s, n, k, e) ==
            Binary64["DDivSmall", <<>>, <<n>>, <<s, k, e>>]
        DivShift(m, d) == Binary64["DivShift", <<>>, <<m, d>>, <<>>]
        DDivAt(a, b, more) == Binary64["DDivAt", <<a, b>>, <<>>, <<more>>]
        DDiv(a, b) == Binary64["DDiv", <<a, b>>, <<>>, <<>>]
        DLess(a, b) == Binary64["DLess", <<a, b>>, <<>>, <<>>]
        DFloor(a) == Binary64["DFloor", <<a>>, <<>>, <<>>]
        DRoundInt(a) == Binary64["DRoundInt", <<a>>, <<>>, <<>>]
        DModInt(a, k) == Binary64["DModInt", <<a>>, <<>>, <<k>>]
        ToBinary64(a) == Binary64["ToBinary64", <<a>>, <<>>, <<>>]
        Add64(a, b) == Binary64["Add64", <<a, b>>, <<>>, <<>>]
        Sub64(a, b) == Binary64["Sub64", <<a, b>>, <<>>, <<>>]
        Mul64(a, b) == Binary64["Mul64", <<a, b>>, <<>>, <<>>]
        Div64(a, b) == Binary64["Div64", <<a, b>>, <<>>, <<>>]
        Less64(a, b) == Binary64["Less64", <<a, b>>, <<>>, <<>>]

        \* a without its leading zero limbs
    IN  CASE op = "NNorm" ->
               LET a == limbs[1]
               IN  IF a = <<>> THEN a
                   ELSE IF a[Len(a)] = 0 THEN NNorm(SubSeq(a, 1, Len(a) - 1)) ELSE a

          [] op = "NOfInt" ->
               LET i == ints[1]
               IN  IF i = 0 THEN <<>> ELSE <<i % LimbBase>> \o NOfInt(i \div LimbBase)

          [] op = "NToInt" ->
               LET a == limbs[1]
               IN  IF a = <<>> THEN 0 ELSE Head(a) + LimbBase * NToInt(Tail(a))

        \* a + b + c
          [] op = "NAddC" ->
               LET a == limbs[1]
                   b == limbs[2]
                   c == ints[1]
               IN  IF a = <<>> /\ b = <<>> THEN NOfInt(c)
                   ELSE LET x == (IF a = <<>> THEN 0 ELSE Head(a))
                                 + (IF b = <<>> THEN 0 ELSE Head(b)) + c
                        IN  <<x % LimbBase>> \o NAddC(IF a = <<>> THEN a ELSE Tail(a),
                                                      IF b = <<>> THEN b ELSE Tail(b),
                                                      x \div LimbBase)

          [] op = "NAdd" ->
               LET a == limbs[1]
                   b == limbs[2]
               IN  NAddC(a, b, 0)

          [] op = "NSubB" ->
               LET a == limbs[1]
                   b == limbs[2]
                   borrow == ints[1]
               IN  IF a = <<>> THEN <<>>
                   ELSE LET x == Head(a) - (IF b = <<>> THEN 0 ELSE Head(b)) - borrow
                        IN  <<IF x < 0 THEN x + LimbBase ELSE x>>
                            \o NSubB(Tail(a), IF b = <<>> THEN b ELSE Tail(b),
                                     IF x < 0 THEN 1 ELSE 0)

        \* a - b for a >= b
          [] op = "NSub" ->
               LET a == limbs[1]
                   b == limbs[2]
               IN  NNorm(NSubB(a, b, 0))

          [] op = "NCmpAt" ->
               LET a == limbs[1]
                   b == limbs[2]
                   i == ints[1]
               IN  IF i = 0 THEN 0
                   ELSE IF a[i] # b[i] THEN (IF a[i] < b[i] THEN -1 ELSE 1)
                   ELSE NCmpAt(a, b, i - 1)

        \* -1, 0 or 1 as a < b, a = b or a > b
          [] op = "NCmp" ->
               LET a == limbs[1]
                   b == limbs[2]
               IN  IF Len(a) # Len(b) THEN (IF Len(a) < Len(b) THEN -1 ELSE 1)
                   ELSE NCmpAt(a, b, Len(a))

          [] op = "NMulSmallC" ->
               LET a == limbs[1]
                   k == ints[1]
                   c == ints[2]
               IN  IF a = <<>> THEN NOfInt(c)
                   ELSE LET x == Head(a) * k + c
                        IN  <<x % LimbBase>> \o NMulSmallC(Tail(a), k, x \div LimbBase)

        \* a * k for 0 <= k < LimbBase
          [] op = "NMulSmall" ->
               LET a == limbs[1]
                   k == ints[1]
               IN  NNorm(NMulSmallC(a, k, 0))

        \* a * LimbBase^k
          [] op = "NShlLimbs" ->
               LET a == limbs[1]
                   k == ints[1]
               IN  IF a = <<>> THEN a ELSE [i \in 1..k |-> 0] \o a

          [] op = "NMul" ->
               LET a == limbs[1]
                   b == limbs[2]
               IN  IF a = <<>> \/ b = <<>> THEN <<>>
                   ELSE NAdd(NMulSmall(a, Head(b)), NShlLimbs(NMul(a, Tail(b)), 1))

          [] op = "NDivSmallAt" ->
               LET a == limbs[1]
                   k == ints[1]
                   i == ints[2]
                   r == ints[3]
               IN  IF i = 0 THEN <<>>
                   ELSE NDivSmallAt(a, k, i - 1, (r * LimbBase + a[i]) % k)
                        \o <<(r * LimbBase + a[i]) \div k>>

        \* a \div k for 0 < k <= LimbBase
          [] op = "NDivSmall" ->
               LET a == limbs[1]
                   k == ints[1]
               IN  NNorm(NDivSmallAt(a, k, Len(a), 0))

          [] op = "NModSmallAt" ->
               LET a == limbs[1]
                   k == ints[1]
                   i == ints[2]
                   r == ints[3]
               IN  IF i = 0 THEN r ELSE NModSmallAt(a, k, i - 1, (r * LimbBase + a[i]) % k)

        \* a % k for 0 < k <= LimbBase
          [] op = "NModSmall" ->
               LET a == limbs[1]
                   k == ints[1]
               IN  NModSmallAt(a, k, Len(a), 0)

        \* a * 2^k
          [] op = "NShl" ->
               LET a == limbs[1]
                   k == ints[1]
               IN  NShlLimbs(NMulSmall(a, 2 ^ (k % LimbBits)), k \div LimbBits)

        \* a \div 2^k
          [] op = "NShr" ->
               LET a == limbs[1]
                   k == ints[1]
               IN  IF k \div LimbBits >= Len(a) THEN <<>>
                   ELSE NDivSmall(SubSeq(a, (k \div LimbBits) + 1, Len(a)),
                                  2 ^ (k % LimbBits))

          [] op = "BitLen" ->
               LET x == ints[1]
               IN  IF x = 0 THEN 0 ELSE 1 + BitLen(x \div 2)

        \* number of bits of a
          [] op = "NBitLen" ->
               LET a == limbs[1]
               IN  IF a = <<>> THEN 0 ELSE LimbBits * (Len(a) - 1) + BitLen(a[Len(a)])

        \* bit i of a, bit 0 being the lowest
          [] op = "NBit" ->
               LET a == limbs[1]
                   i == ints[1]
               IN  IF i \div LimbBits >= Len(a) THEN 0
                   ELSE (a[(i \div LimbBits) + 1] \div (2 ^ (i % LimbBits))) % 2

          [] op = "TrailingZeros" ->
               LET x == ints[1]
               IN  IF x % 2 = 1 THEN 0 ELSE 1 + TrailingZeros(x \div 2)

        \* number of zero bits below the lowest one bit of a # 0
          [] op = "NTrailingZeros" ->
               LET a == limbs[1]
               IN  IF Head(a) = 0 THEN LimbBits + NTrailingZeros(Tail(a))
                   ELSE TrailingZeros(Head(a))

        \* the largest digit c, built from bit j downward, with den * c <= target
          [] op = "NDigit" ->
               LET target == limbs[1]
                   den == limbs[2]
                   j == ints[1]
                   c == ints[2]
               IN  IF j < 0 THEN c
                   ELSE NDigit(target, den, j - 1,
                               IF NCmp(NMulSmall(den, c + 2 ^ j), target) <= 0
                               THEN c + 2 ^ j ELSE c)

        \* the digit of x by den, for x < den * LimbBase
          [] op = "NDigitOf" ->
               LET x == limbs[1]
                   den == limbs[2]
               IN  IF NCmp(x, den) < 0 THEN 0 ELSE NDigit(x, den, LimbBits - 1, 0)

        \* long division, one limb: quotient q so far, x the remainder so far with
        \* the next limb brought down, and the digit of x by den
          [] op = "NDivTake" ->
               LET q == limbs[1]
                   x == limbs[2]
                   den == limbs[3]
                   digit == ints[1]
               IN  <<<<digit>> \o q, NSub(x, NMulSmall(den, digit))>>

          [] op = "NDivPut" ->
               LET q == limbs[1]
                   x == limbs[2]
                   den == limbs[3]
               IN  NDivTake(q, x, den, NDigitOf(x, den))

        \* long division, limb by limb: the limbs i .. 1 of num are brought down to
        \* the quotient and remainder qr
          [] op = "NDivLimbs" ->
               LET num == limbs[1]
                   den == limbs[2]
                   i == ints[1]
                   qr == SubSeq(limbs, 3, Len(limbs))
               IN  IF i = 0 THEN qr
                   ELSE NDivLimbs(num, den, i - 1,
                                  NDivPut(qr[1], NNorm(<<num[i]>> \o qr[2]), den))

        \* quotient and remainder of num by den
          [] op = "NDivMod" ->
               LET num == limbs[1]
                   den == limbs[2]
               IN  NDivLimbs(num, den, Len(num), <<<<>>, <<>>>>)

        \* the number s * m * 2^e for m with z zero bits below its lowest one bit
          [] op = "CanonicalAt" ->
               LET s == ints[1]
                   m == limbs[1]
                   e == ints[2]
                   z == ints[3]
               IN  [s |-> s, m |-> NShr(m, z), e |-> e + z]

        \* the number s * m * 2^e as a record: m odd, or zero
          [] op = "Canonical" ->
               LET s == ints[1]
                   m == limbs[1]
                   e == ints[2]
               IN  IF m = <<>> THEN DZero ELSE CanonicalAt(s, m, e, NTrailingZeros(m))

        \* s * n * 2^e rounded at bit sh of n, whose bits above are q and whose bits
        \* below compare as c with a half of bit sh
          [] op = "DRoundUp" ->
               LET s == ints[1]
                   q == limbs[1]
                   e == ints[2]
                   sticky == ints[3]
                   c == ints[4]
               IN  Canonical(s,
                             IF c > 0 \/ (c = 0 /\ (sticky = 1 \/ NBit(q, 0) = 1))
                             THEN NAdd(q, <<1>>) ELSE q,
                             e)

          [] op = "DRoundAt" ->
               LET s == ints[1]
                   n == limbs[1]
                   e == ints[2]
                   sticky == ints[3]
                   sh == ints[4]
                   q == limbs[2]
               IN  DRoundUp(s, q, e + sh, sticky,
                            NCmp(NSub(n, NShl(q, sh)), NShl(<<1>>, sh - 1)))

        \* the binary64 number nearest to s * n * 2^e (plus a fraction of the last
        \* bit of n if `sticky'), ties to even; bits is the number of bits of n
          [] op = "DRoundBits" ->
               LET s == ints[1]
                   n == limbs[1]
                   e == ints[2]
                   sticky == ints[3]
                   bits == ints[4]
               IN  IF bits <= MantissaBits THEN Canonical(s, n, e)
                   ELSE DRoundAt(s, n, e, sticky, bits - MantissaBits,
                                 NShr(n, bits - MantissaBits))

          [] op = "DRound" ->
               LET s == ints[1]
                   n == limbs[1]
                   e == ints[2]
                   sticky == ints[3]
               IN  DRoundBits(s, n, e, sticky, NBitLen(n))

        \* an integer as a binary64 number
          [] op = "DInt" ->
               LET i == ints[1]
               IN  Canonical(IF i < 0 THEN -1 ELSE 1, NOfInt(IF i < 0 THEN -i ELSE i), 0)

        \* -a
          [] op = "DNeg" ->
               LET a == numbers[1]
               IN  IF a.m = <<>> /\ a.e # 1 THEN a ELSE [a EXCEPT !.s = -a.s]

        \* Math.abs
          [] op = "DAbs" ->
               LET a == numbers[1]
               IN  IF IsNaN(a) THEN a ELSE [a EXCEPT !.s = 1]

        \* s * (x - y) * 2^e for x and y comparing as c
          [] op = "DSubAt" ->
               LET s == ints[1]
                   x == limbs[1]
                   y == limbs[2]
                   e == ints[2]
                   c == ints[3]
               IN  IF c = 0 THEN DZero
                   ELSE IF c > 0 THEN DRound(s, NSub(x, y), e, 0)
                   ELSE DRound(-s, NSub(y, x), e, 0)

        \* sa * x * 2^e + sb * y * 2^e
          [] op = "DAddAt" ->
               LET sa == ints[1]
                   x == limbs[1]
                   sb == ints[2]
                   y == limbs[2]
                   e == ints[3]
               IN  IF sa = sb THEN DRound(sa, NAdd(x, y), e, 0)
                   ELSE DSubAt(sa, x, y, e, NCmp(x, y))

        \* a + b for finite a and b
          [] op = "DAddFinite" ->
               LET a == numbers[1]
                   b == numbers[2]
               IN  IF a.m = <<>> THEN b
                   ELSE IF b.m = <<>> THEN a
                   ELSE IF a.e < b.e THEN DAddAt(a.s, a.m, b.s, NShl(b.m, b.e - a.e), a.e)
                   ELSE DAddAt(a.s, NShl(a.m, a.e - b.e), b.s, b.m, b.e)

        \* a + b
          [] op = "DAdd" ->
               LET a == numbers[1]
                   b == numbers[2]
               IN  IF IsNaN(a) \/ IsNaN(b) THEN DNaN
                   ELSE IF IsInfinite(a)
                   THEN (IF IsInfinite(b) /\ b.s # a.s THEN DNaN ELSE a)
                   ELSE IF IsInfinite(b) THEN b
                   ELSE DAddFinite(a, b)

        \* a - b
          [] op = "DSub" ->
               LET a == numbers[1]
                   b == numbers[2]
               IN  DAdd(a, DNeg(b))

        \* a * b
          [] op = "DMul" ->
               LET a == numbers[1]
                   b == numbers[2]
               IN  IF IsNaN(a) \/ IsNaN(b) THEN DNaN
                   ELSE IF IsInfinite(a) \/ IsInfinite(b)
                   THEN (IF IsZero(a) \/ IsZero(b) THEN DNaN ELSE DInfinity(a.s * b.s))
                   ELSE DRound(a.s * b.s, NMul(a.m, b.m), a.e + b.e, 0)

        \* s * qr.q * 2^e, rounded, for the quotient and remainder qr of a division
          [] op = "DRoundQuotient" ->
               LET s == ints[1]
                   qr == SubSeq(limbs, 1, Len(limbs))
                   e == ints[2]
               IN  DRound(s, NNorm(qr[1]), e, IF qr[2] # <<>> THEN 1 ELSE 0)

        \* s * (n / k) * 2^e for 0 < k < LimbBase
          [] op = "DDivSmall" ->
               LET s == ints[1]
                   n == limbs[1]
                   k == ints[2]
                   e == ints[3]
               IN  DRound(s, NDivSmall(n, k), e, IF NModSmall(n, k) # 0 THEN 1 ELSE 0)

        \* how far the mantissa m is shifted before it is divided by d, for the
        \* quotient to have more bits than a mantissa
          [] op = "DivShift" ->
               LET m == limbs[1]
                   d == limbs[2]
               IN  IF MantissaBits + 3 + NBitLen(d) > NBitLen(m)
                   THEN MantissaBits + 3 + NBitLen(d) - NBitLen(m) ELSE 0

        \* a / b for a and b finite and not zero, a's mantissa shifted by `more'
          [] op = "DDivAt" ->
               LET a == numbers[1]
                   b == numbers[2]
                   more == ints[1]
               IN  IF Len(b.m) = 1
                   THEN DDivSmall(a.s * b.s, NShl(a.m, more), b.m[1], a.e - b.e - more)
                   ELSE DRoundQuotient(a.s * b.s, NDivMod(NShl(a.m, more), b.m),
                                       a.e - b.e - more)

        \* a / b
          [] op = "DDiv" ->
               LET a == numbers[1]
                   b == numbers[2]
               IN  IF IsNaN(a) \/ IsNaN(b) THEN DNaN
                   ELSE IF IsInfinite(a)
                   THEN (IF IsInfinite(b) THEN DNaN ELSE DInfinity(a.s * b.s))
                   ELSE IF IsInfinite(b) THEN DZero
                   ELSE IF IsZero(b)
                   THEN (IF IsZero(a) THEN DNaN ELSE DInfinity(a.s * b.s))
                   ELSE IF IsZero(a) THEN DZero
                   ELSE DDivAt(a, b, DivShift(a.m, b.m))

        \* a < b
          [] op = "DLess" ->
               LET a == numbers[1]
                   b == numbers[2]
               IN  IF IsNaN(a) \/ IsNaN(b) \/ a = b THEN FALSE
                   ELSE IF IsInfinite(a) THEN a.s = -1
                   ELSE IF IsInfinite(b) THEN b.s = 1
                   ELSE DAddFinite(a, DNeg(b)).s = -1

        \* Math.floor of a finite a >= 0, as an integer
          [] op = "DFloor" ->
               LET a == numbers[1]
               IN  IF a.e >= 0 THEN NToInt(NShl(a.m, a.e)) ELSE NToInt(NShr(a.m, -a.e))

        \* Math.round of a finite a >= 0, as an integer: a half goes upward
          [] op = "DRoundInt" ->
               LET a == numbers[1]
               IN  IF a.e >= 0 THEN NToInt(NShl(a.m, a.e))
                   ELSE NToInt(NShr(NAdd(NShl(a.m, 1), NShl(<<1>>, -a.e)), 1 - a.e))

        \* a % k for a finite a >= 0 and an integer k > 0: exact
          [] op = "DModInt" ->
               LET a == numbers[1]
                   k == ints[1]
               IN  DSub(a, DInt(k * (DFloor(a) \div k)))

        \* a as a binary64 number: the one nearest to a
          [] op = "ToBinary64" ->
               LET a == numbers[1]
               IN  IF IsDouble(a) THEN a ELSE DDiv(DInt(a.n), DInt(a.d))

        \* a + b, a - b, a * b, a / b and a < b in binary64
          [] op = "Add64" ->
               LET a == numbers[1]
                   b == numbers[2]
               IN  DAdd(ToBinary64(a), ToBinary64(b))

          [] op = "Sub64" ->
               LET a == numbers[1]
                   b == numbers[2]
               IN  DSub(ToBinary64(a), ToBinary64(b))

          [] op = "Mul64" ->
               LET a == numbers[1]
                   b == numbers[2]
               IN  DMul(ToBinary64(a), ToBinary64(b))

          [] op = "Div64" ->
               LET a == numbers[1]
                   b == numbers[2]
               IN  DDiv(ToBinary64(a), ToBinary64(b))

          [] op = "Less64" ->
               LET a == numbers[1]
                   b == numbers[2]
               IN  DLess(ToBinary64(a), ToBinary64(b))

\* a as a binary64 number: the one nearest to a
ToDouble(a) == Binary64["ToBinary64", <<a>>, <<>>, <<>>]

\* +, -, *, / and < of binary64 numbers; an operand that is a rational is
\* the binary64 number nearest to it
DoubleAdd(a, b) == Binary64["Add64", <<a, b>>, <<>>, <<>>]

DoubleSub(a, b) == Binary64["Sub64", <<a, b>>, <<>>, <<>>]

DoubleMul(a, b) == Binary64["Mul64", <<a, b>>, <<>>, <<>>]

DoubleDiv(a, b) == Binary64["Div64", <<a, b>>, <<>>, <<>>]

DoubleLess(a, b) == Binary64["Less64", <<a, b>>, <<>>, <<>>]

\* Math.abs of a binary64 number
DoubleAbs(a) == Binary64["DAbs", <<a>>, <<>>, <<>>]

\* a % k of a binary64 number a >= 0 and an integer k > 0
DoubleMod(a, k) == Binary64["DModInt", <<a>>, <<>>, <<k>>]

\* (variant: the fraction is dropped)
MathTruncate(a) == Binary64["DFloor", <<a>>, <<>>, <<>>]

\* Math.round of a binary64 number a >= 0: the nearest integer, a half going
\* upward
MathRound(a) == Binary64["DRoundInt", <<a>>, <<>>, <<>>]

----------------------------------------------------------------------------
(* Exact rational arithmetic standing for the numbers of the program *)

Abs(x) == IF x < 0 THEN -x ELSE x

RECURSIVE GCD(_, _)
GCD(a, b) == IF b = 0 THEN a ELSE GCD(b, a % b)

R(n, d) ==
    LET s == IF d < 0 THEN -1 ELSE 1
        g == GCD(Abs(n), Abs(d))
    IN  [n |-> (s * n) \div g, d |-> (s * d) \div g]

RInt(i) == [n |-> i, d |-> 1]

LCM(a, b) == (a \div GCD(a, b)) * b

RAdd(a, b) ==
    LET l == LCM(a.d, b.d)
    IN  R(a.n * (l \div a.d) + b.n * (l \div b.d), l)

RSub(a, b) ==
    LET l == LCM(a.d, b.d)
    IN  R(a.n * (l \div a.d) - b.n * (l \div b.d), l)

RMul(a, b) ==
    LET g1 == GCD(Abs(a.n), b.d)
        g2 == GCD(Abs(b.n), a.d)
    IN  R((a.n \div g1) * (b.n \div g2), (a.d \div g2) * (b.d \div g1))

RDiv(a, b) == RMul(a, R(b.d, b.n))

RLess(a, b) ==
    LET l == LCM(a.d, b.d)
    IN  a.n * (l \div a.d) < b.n * (l \div b.d)

RHalf(a) == RDiv(a, RInt(2))

\* Math.floor
Floor(a) == a.n \div a.d

\* Math.min
Min(a, b) == IF a < b THEN a ELSE b

\* Math.abs of a number
RAbs(a) == [n |-> Abs(a.n), d |-> a.d]

\* a % b for b > 0: the remainder has the sign of a
RMod(a, b) ==
    LET q == RDiv(a, b)
        t == IF q.n >= 0 THEN q.n \div q.d ELSE -((-q.n) \div q.d)
    IN  RSub(a, RMul(b, RInt(t)))

----------------------------------------------------------------------------
(* Values and objects *)

NULL == [null |-> TRUE]

\* { ...b }: a new ViewBounds object with the four numbers of b
CopyBounds(b) ==
    [realMin |-> b.realMin, realMax |-> b.realMax,
     imagMin |-> b.imagMin, imagMax |-> b.imagMax]

\* the literal of the GameScene constructor
DefaultBounds ==
    [realMin |-> R(-5, 2), realMax |-> R(3, 2),
     imagMin |-> RInt(-2), imagMax |-> RInt(2)]

\* sizes the camera can take: a square one, and one with a fractional width
CamSizes == { <<RInt(16), RInt(16)>>, <<R(65, 2), RInt(32)>> }

\* positions at which a button goes down, and to which the pointer moves
DownPoints == { <<0, 0>>, <<4, 2>> }
MovePoints == { <<0, 0>>, <<16, 16>> }

\* the places of the program that hold a reference to a ViewBounds object
RefCurrent == <<"currentViewBounds", 0>>
RefRenderer == <<"mandelbrotRenderer.viewBounds", 0>>
RefHistory(i) == <<"zoomHistory", i>>

\* references a and b hold the same object
SameObject(al, a, b) == a = b \/ {a, b} \in al

\* reference r is assigned a newly created object, or goes away
BindNew(al, r) == { p \in al : r \notin p }

\* reference r is assigned the object that reference t holds
BindTo(al, r, t) ==
    IF SameObject(al, r, t) THEN al
    ELSE LET rest == BindNew(al, r)
         IN  rest \cup { {r, x} : x \in {t} \cup { y \in UNION rest :
                                                      {t, y} \in rest } }

\* identity of a newly allocated object: the least id not in use
FreshId(used) ==
    CHOOSE i \in 0..Cardinality(used) :
        i \notin used /\ \A j \in 0..(i - 1) : j \in used

----------------------------------------------------------------------------
(* MandelbrotRenderer *)

\* constructor: keeps the reference of the bounds it is given
NewRenderer(w, h, maxIter, bounds) ==
    [width |-> w, height |-> h, maxIterations |-> maxIter,
     viewBounds |-> bounds]

\* (variant: the taller canvas multiplies by the aspect)
RenderAdjustSwapped(b, width, height) ==
    LET realRange == RSub(b.realMax, b.realMin)
        imagRange == RSub(b.imagMax, b.imagMin)
        canvasAspect == R(width, height)
        setAspect == RDiv(realRange, imagRange)
    IN  IF RLess(setAspect, canvasAspect)
        THEN LET centerReal == RHalf(RAdd(b.realMin, b.realMax))
                 adjustedRealRange == RMul(imagRange, canvasAspect)
             IN  [realMin |-> RSub(centerReal, RHalf(adjustedRealRange)),
                  realMax |-> RAdd(centerReal, RHalf(adjustedRealRange)),
                  imagMin |-> b.imagMin, imagMax |-> b.imagMax]
        ELSE LET centerImag == RHalf(RAdd(b.imagMin, b.imagMax))
                 adjustedImagRange == RMul(realRange, canvasAspect)
             IN  [realMin |-> b.realMin, realMax |-> b.realMax,
                  imagMin |-> RSub(centerImag, RHalf(adjustedImagRange)),
                  imagMax |-> RAdd(centerImag, RHalf(adjustedImagRange))]

\* (variant: the wider range starts at realMin)
RenderAdjustFromMin(b, width, height) ==
    LET realRange == RSub(b.realMax, b.realMin)
        imagRange == RSub(b.imagMax, b.imagMin)
        canvasAspect == R(width, height)
        setAspect == RDiv(realRange, imagRange)
    IN  IF RLess(setAspect, canvasAspect)
        THEN LET centerReal == RHalf(RAdd(b.realMin, b.realMax))
                 adjustedRealRange == RMul(imagRange, canvasAspect)
             IN  [realMin |-> b.realMin,
                  realMax |-> RAdd(b.realMin, adjustedRealRange),
                  imagMin |-> b.imagMin, imagMax |-> b.imagMax]
        ELSE LET centerImag == RHalf(RAdd(b.imagMin, b.imagMax))
                 adjustedImagRange == RDiv(realRange, canvasAspect)
             IN  [realMin |-> b.realMin, realMax |-> b.realMax,
                  imagMin |-> RSub(centerImag, RHalf(adjustedImagRange)),
                  imagMax |-> RAdd(centerImag, RHalf(adjustedImagRange))]

\* (variant: the sum of the imaginary bounds is not halved)
RenderAdjustNoCenter(b, width, height) ==
    LET realRange == RSub(b.realMax, b.realMin)
        imagRange == RSub(b.imagMax, b.imagMin)
        canvasAspect == R(width, height)
        setAspect == RDiv(realRange, imagRange)
    IN  IF RLess(setAspect, canvasAspect)
        THEN LET centerReal == RHalf(RAdd(b.realMin, b.realMax))
                 adjustedRealRange == RMul(imagRange, canvasAspect)
             IN  [realMin |-> RSub(centerReal, RHalf(adjustedRealRange)),
                  realMax |-> RAdd(centerReal, RHalf(adjustedRealRange)),
                  imagMin |-> b.imagMin, imagMax |-> b.imagMax]
        ELSE LET centerImag == RAdd(b.imagMin, b.imagMax)
                 adjustedImagRange == RDiv(realRange, canvasAspect)
             IN  [realMin |-> b.realMin, realMax |-> b.realMax,
                  imagMin |-> RSub(centerImag, RHalf(adjustedImagRange)),
                  imagMax |-> RAdd(centerImag, RHalf(adjustedImagRange))]

\* (variant: the wider canvas divides by the aspect)
RenderAdjustNarrow(b, width, height) ==
    LET realRange == RSub(b.realMax, b.realMin)
        imagRange == RSub(b.imagMax, b.imagMin)
        canvasAspect == R(width, height)
        setAspect == RDiv(realRange, imagRange)
    IN  IF RLess(setAspect, canvasAspect)
        THEN LET centerReal == RHalf(RAdd(b.realMin, b.realMax))
                 adjustedRealRange == RDiv(imagRange, canvasAspect)
             IN  [realMin |-> RSub(centerReal, RHalf(adjustedRealRange)),
                  realMax |-> RAdd(centerReal, RHalf(adjustedRealRange)),
                  imagMin |-> b.imagMin, imagMax |-> b.imagMax]
        ELSE LET centerImag == RHalf(RAdd(b.imagMin, b.imagMax))
                 adjustedImagRange == RDiv(realRange, canvasAspect)
             IN  [realMin |-> b.realMin, realMax |-> b.realMax,
                  imagMin |-> RSub(centerImag, RHalf(adjustedImagRange)),
                  imagMax |-> RAdd(centerImag, RHalf(adjustedImagRange))]

\* render(): aspect-ratio adjustment of the view bounds
RenderAdjust(b, width, height) ==
    LET realRange == RSub(b.realMax, b.realMin)
        imagRange == RSub(b.imagMax, b.imagMin)
        canvasAspect == R(width, height)
        setAspect == RDiv(realRange, imagRange)
    IN  IF RLess(setAspect, canvasAspect)
        THEN LET centerReal == RHalf(RAdd(b.realMin, b.realMax))
                 adjustedRealRange == RMul(imagRange, canvasAspect)
             IN  [realMin |-> RSub(centerReal, RHalf(adjustedRealRange)),
                  realMax |-> RAdd(centerReal, RHalf(adjustedRealRange)),
                  imagMin |-> b.imagMin, imagMax |-> b.imagMax]
        ELSE LET centerImag == RHalf(RAdd(b.imagMin, b.imagMax))
                 adjustedImagRange == RDiv(realRange, canvasAspect)
             IN  [realMin |-> b.realMin, realMax |-> b.realMax,
                  imagMin |-> RSub(centerImag, RHalf(adjustedImagRange)),
                  imagMax |-> RAdd(centerImag, RHalf(adjustedImagRange))]

\* render(): plane point of the pixel position (x, y) of a width x height
\* buffer whose adjusted rectangle is adj
PixelToPlane(adj, width, height, x, y) ==
    [real |-> RAdd(adj.realMin,
                   RMul(RDiv(x, RInt(width)), RSub(adj.realMax, adj.realMin))),
     imag |-> RAdd(adj.imagMin,
                   RMul(RDiv(y, RInt(height)), RSub(adj.imagMax, adj.imagMin)))]

\* mandelbrotIterations: the z the loop starts from, for the point (cr, ci)
\* (variant: the loop starts from the point itself)
KernelStartAtPoint(cr, ci) == [zReal |-> cr, zImag |-> ci]

KernelStart(cr, ci) == [zReal |-> RInt(0), zImag |-> RInt(0)]

\* mandelbrotIterations: the escape test on the two squares
\* (variant: only the real part is tested)
EscapedRealOnly(zRealSquared, zImagSquared) == RLess(RInt(4), zRealSquared)

\* (variant: >= instead of >)
EscapedNonStrict(zRealSquared, zImagSquared) ==
    ~RLess(RAdd(zRealSquared, zImagSquared), RInt(4))

Escaped(zRealSquared, zImagSquared) ==
    RLess(RInt(4), RAdd(zRealSquared, zImagSquared))

\* (variant: the squares are added)
NextZPlus(zr, zi, cr, ci) ==
    LET zRealSquared == RMul(zr, zr)
        zImagSquared == RMul(zi, zi)
        newZReal == RAdd(RAdd(zRealSquared, zImagSquared), cr)
    IN  [zReal |-> newZReal,
         zImag |-> RAdd(RMul(RMul(RInt(2), zr), zi), ci)]

\* mandelbrotIterations: z = z^2 + c, for z = (zr, zi) and c = (cr, ci)
NextZ(zr, zi, cr, ci) ==
    LET zRealSquared == RMul(zr, zr)
        zImagSquared == RMul(zi, zi)
        newZReal == RAdd(RSub(zRealSquared, zImagSquared), cr)
    IN  [zReal |-> newZReal,
         zImag |-> RAdd(RMul(RMul(RInt(2), zr), zi), ci)]

\* hslToRgb: c = (1 - Math.abs(2 * l - 1)) * s
HslChroma(s, l) ==
    DoubleMul(DoubleSub(RInt(1),
                        DoubleAbs(DoubleSub(DoubleMul(RInt(2), l), RInt(1)))),
              s)

\* hslToRgb: x = c * (1 - Math.abs((h * 6) % 2 - 1)), h already h / 360
HslX(h, c) ==
    DoubleMul(c, DoubleSub(RInt(1),
                           DoubleAbs(DoubleSub(DoubleMod(DoubleMul(h, RInt(6)),
                                                         2),
                                               RInt(1)))))

\* hslToRgb: r, g and b of the sector of h, h already h / 360
HslSector(h, c, x) ==
    IF DoubleLess(h, R(1, 6)) THEN [r |-> c, g |-> x, b |-> DZero]
    ELSE IF DoubleLess(h, R(2, 6)) THEN [r |-> x, g |-> c, b |-> DZero]
    ELSE IF DoubleLess(h, R(3, 6)) THEN [r |-> DZero, g |-> c, b |-> x]
    ELSE IF DoubleLess(h, R(4, 6)) THEN [r |-> DZero, g |-> x, b |-> c]
    ELSE IF DoubleLess(h, R(5, 6)) THEN [r |-> x, g |-> DZero, b |-> c]
    ELSE [r |-> c, g |-> DZero, b |-> x]

\* hslToRgb: Math.round((v + m) * 255)
HslChannel(v, m) == MathRound(DoubleMul(DoubleAdd(v, m), RInt(255)))

\* hslToRgb: the three channels, for m = l - c / 2
HslChannels(rgb, m) ==
    [r |-> HslChannel(rgb.r, m),
     g |-> HslChannel(rgb.g, m),
     b |-> HslChannel(rgb.b, m)]

\* hslToRgb, from h /= 360 on
HslMix(h, c, l) ==
    HslChannels(HslSector(h, c, HslX(h, c)),
                DoubleSub(l, DoubleDiv(c, RInt(2))))

\* hslToRgb(h, s, l), for binary64 numbers h, s and l
HslToRgb(h, s, l) == HslMix(DoubleDiv(h, RInt(360)), HslChroma(s, l), l)

\* (variant: no case for the points of the set)
GetColorNoBlack(its, maxIterations) ==
    HslToRgb(DoubleMul(DoubleDiv(RInt(its), RInt(maxIterations)), RInt(360)),
             ToDouble(R(4, 5)), ToDouble(R(1, 2)))

\* getColor(iterations)
GetColor(its, maxIterations) ==
    IF its = maxIterations
    THEN [r |-> 0, g |-> 0, b |-> 0]
    ELSE LET normalized == DoubleDiv(RInt(its), RInt(maxIterations))
             hue == DoubleMul(normalized, RInt(360))
             saturation == ToDouble(R(4, 5))
             lightness == ToDouble(R(1, 2))
         IN  HslToRgb(hue, saturation, lightness)

\* ctx.createImageData(w, h): w * h * 4 bytes, all 0; `data' keeps the bytes
\* written so far, a byte not written reads 0
CreateImageData(w, h) ==
    [width |-> w, height |-> h, length |-> w * h * 4, data |-> <<>>]

\* imageData.data[index]
DataAt(img, index) ==
    IF index \in DOMAIN img.data THEN img.data[index] ELSE 0

\* imageData.data[index] = value: clamped to a byte, dropped out of range
SetData(img, index, value) ==
    IF index \in 0..(img.length - 1)
    THEN [img EXCEPT !.data =
              (index :> (IF value < 0 THEN 0
                         ELSE IF value > 255 THEN 255 ELSE value)) @@ @]
    ELSE img

\* (variant: the row stride is the height)
PixelIndexByHeight(r, px, py) == (py * r.height + px) * 4

\* render(): index of the first byte of pixel (px, py) for renderer r
PixelIndex(r, px, py) == (py * r.width + px) * 4

----------------------------------------------------------------------------
(* GameScene: pure parts *)

\* (variant: the bounds are taken as they are)
ZoomAdjustNone(currentBounds, textureWidth, textureHeight) ==
    CopyBounds(currentBounds)

\* zoomToSelection: the adjusted bounds recomputed on the zoom path
ZoomAdjust(currentBounds, textureWidth, textureHeight) ==
    LET realRange == RSub(currentBounds.realMax, currentBounds.realMin)
        imagRange == RSub(currentBounds.imagMax, currentBounds.imagMin)
        canvasAspect == R(textureWidth, textureHeight)
        setAspect == RDiv(realRange, imagRange)
    IN  IF RLess(setAspect, canvasAspect)
        THEN LET centerReal ==
                     RHalf(RAdd(currentBounds.realMin, currentBounds.realMax))
                 adjustedRealRange == RMul(imagRange, canvasAspect)
             IN  [realMin |-> RSub(centerReal, RHalf(adjustedRealRange)),
                  realMax |-> RAdd(centerReal, RHalf(adjustedRealRange)),
                  imagMin |-> currentBounds.imagMin,
                  imagMax |-> currentBounds.imagMax]
        ELSE LET centerImag ==
                     RHalf(RAdd(currentBounds.imagMin, currentBounds.imagMax))
                 adjustedImagRange == RDiv(realRange, canvasAspect)
             IN  [realMin |-> currentBounds.realMin,
                  realMax |-> currentBounds.realMax,
                  imagMin |-> RSub(centerImag, RHalf(adjustedImagRange)),
                  imagMax |-> RAdd(centerImag, RHalf(adjustedImagRange))]

\* zoomToSelection: top-left corner of the displayed image on the screen
ImageLeft(image) == RSub(image.x, RHalf(RInt(image.width)))
ImageTop(image) == RSub(image.y, RHalf(RInt(image.height)))

\* zoomToSelection: the selection square in texture pixel coordinates
SquareLeftInTexture(image, squareX) == RSub(RInt(squareX), ImageLeft(image))
SquareTopInTexture(image, squareY) == RSub(RInt(squareY), ImageTop(image))

\* zoomToSelection in binary64: center - range / 2 and center + range / 2
Around64(center, range) ==
    [min |-> DoubleSub(center, DoubleDiv(range, RInt(2))),
     max |-> DoubleAdd(center, DoubleDiv(range, RInt(2)))]

\* zoomToSelection in binary64: the adjusted bounds, realRange and imagRange
\* being the ranges of currentBounds
ZoomAdjustRanges64(currentBounds, realRange, imagRange, canvasAspect) ==
    IF DoubleLess(DoubleDiv(realRange, imagRange), canvasAspect)
    THEN LET re == Around64(DoubleDiv(DoubleAdd(currentBounds.realMin,
                                                currentBounds.realMax),
                                      RInt(2)),
                            DoubleMul(imagRange, canvasAspect))
         IN  [realMin |-> re.min, realMax |-> re.max,
              imagMin |-> currentBounds.imagMin,
              imagMax |-> currentBounds.imagMax]
    ELSE LET im == Around64(DoubleDiv(DoubleAdd(currentBounds.imagMin,
                                                currentBounds.imagMax),
                                      RInt(2)),
                            DoubleDiv(realRange, canvasAspect))
         IN  [realMin |-> currentBounds.realMin,
              realMax |-> currentBounds.realMax,
              imagMin |-> im.min, imagMax |-> im.max]

\* zoomToSelection in binary64: the adjusted bounds recomputed on the zoom
\* path
ZoomAdjust64(currentBounds, textureWidth, textureHeight) ==
    ZoomAdjustRanges64(currentBounds,
                       DoubleSub(currentBounds.realMax, currentBounds.realMin),
                       DoubleSub(currentBounds.imagMax, currentBounds.imagMin),
                       R(textureWidth, textureHeight))

\* zoomToSelection in binary64: newBounds, from the centre of the square in
\* normalized coordinates, the ranges of the adjusted bounds and the zoom
\* factor
ZoomRanges64(adj, centerNormX, centerNormY, realRange, imagRange, zoomFactor) ==
    LET re == Around64(DoubleAdd(adj.realMin,
                                 DoubleMul(centerNormX, realRange)),
                       DoubleDiv(realRange, zoomFactor))
        im == Around64(DoubleAdd(adj.imagMin,
                                 DoubleMul(centerNormY, imagRange)),
                       DoubleDiv(imagRange, zoomFactor))
    IN  [realMin |-> re.min, realMax |-> re.max,
         imagMin |-> im.min, imagMax |-> im.max]

\* zoomToSelection in binary64: newBounds, from the adjusted bounds and the
\* square in normalized coordinates
ZoomInto64(adj, normX, normY, normSize) ==
    ZoomRanges64(adj,
                 DoubleAdd(normX, DoubleDiv(normSize, RInt(2))),
                 DoubleAdd(normY, DoubleDiv(normSize, RInt(2))),
                 DoubleSub(adj.realMax, adj.realMin),
                 DoubleSub(adj.imagMax, adj.imagMin),
                 DoubleDiv(RInt(1), normSize))

\* zoomToSelection, its numbers being binary64 numbers: the new view bounds
ZoomNewBounds64(currentBounds, image, squareX, squareY, squareSize) ==
    ZoomInto64(ZoomAdjust64(currentBounds, image.width, image.height),
               RDiv(SquareLeftInTexture(image, squareX), RInt(image.width)),
               RDiv(SquareTopInTexture(image, squareY), RInt(image.height)),
               R(squareSize, image.width))

\* (variant: the half of the square's size is not taken)
ZoomCenterNoHalf(currentBounds, image, squareX, squareY, squareSize) ==
    LET textureWidth == image.width
        textureHeight == image.height
        normX == RDiv(SquareLeftInTexture(image, squareX), RInt(textureWidth))
        normY == RDiv(SquareTopInTexture(image, squareY), RInt(textureHeight))
        normSize == R(squareSize, textureWidth)
        centerNormX == RAdd(normX, normSize)
        centerNormY == RAdd(normY, normSize)
        adj == ZoomAdjust(currentBounds, textureWidth, textureHeight)
        adjustedRealRange == RSub(adj.realMax, adj.realMin)
        adjustedImagRange == RSub(adj.imagMax, adj.imagMin)
    IN  [real |-> RAdd(adj.realMin, RMul(centerNormX, adjustedRealRange)),
         imag |-> RAdd(adj.imagMin, RMul(centerNormY, adjustedImagRange))]

\* zoomToSelection: centre of the selection in the complex plane
ZoomCenter(currentBounds, image, squareX, squareY, squareSize) ==
    LET textureWidth == image.width
        textureHeight == image.height
        normX == RDiv(SquareLeftInTexture(image, squareX), RInt(textureWidth))
        normY == RDiv(SquareTopInTexture(image, squareY), RInt(textureHeight))
        normSize == R(squareSize, textureWidth)
        centerNormX == RAdd(normX, RHalf(normSize))
        centerNormY == RAdd(normY, RHalf(normSize))
        adj == ZoomAdjust(currentBounds, textureWidth, textureHeight)
        adjustedRealRange == RSub(adj.realMax, adj.realMin)
        adjustedImagRange == RSub(adj.imagMax, adj.imagMin)
    IN  [real |-> RAdd(adj.realMin, RMul(centerNormX, adjustedRealRange)),
         imag |-> RAdd(adj.imagMin, RMul(centerNormY, adjustedImagRange))]

\* (variant: the ranges are multiplied by the zoom factor)
ZoomNewBoundsInverse(currentBounds, image, squareX, squareY, squareSize) ==
    LET textureWidth == image.width
        textureHeight == image.height
        normSize == R(squareSize, textureWidth)
        adj == ZoomAdjust(currentBounds, textureWidth, textureHeight)
        adjustedRealRange == RSub(adj.realMax, adj.realMin)
        adjustedImagRange == RSub(adj.imagMax, adj.imagMin)
        center == ZoomCenter(currentBounds, image, squareX, squareY, squareSize)
        zoomFactor == RDiv(RInt(1), normSize)
        newRealRange == RMul(adjustedRealRange, zoomFactor)
        newImagRange == RMul(adjustedImagRange, zoomFactor)
    IN  [realMin |-> RSub(center.real, RHalf(newRealRange)),
         realMax |-> RAdd(center.real, RHalf(newRealRange)),
         imagMin |-> RSub(center.imag, RHalf(newImagRange)),
         imagMax |-> RAdd(center.imag, RHalf(newImagRange))]

\* (variant: the bounds lie a whole new range on each side of the centre)
ZoomNewBoundsFullRange(currentBounds, image, squareX, squareY, squareSize) ==
    LET textureWidth == image.width
        textureHeight == image.height
        normSize == R(squareSize, textureWidth)
        adj == ZoomAdjust(currentBounds, textureWidth, textureHeight)
        adjustedRealRange == RSub(adj.realMax, adj.realMin)
        adjustedImagRange == RSub(adj.imagMax, adj.imagMin)
        center == ZoomCenter(currentBounds, image, squareX, squareY, squareSize)
        zoomFactor == RDiv(RInt(1), normSize)
        newRealRange == RDiv(adjustedRealRange, zoomFactor)
        newImagRange == RDiv(adjustedImagRange, zoomFactor)
    IN  [realMin |-> RSub(center.real, newRealRange),
         realMax |-> RAdd(center.real, newRealRange),
         imagMin |-> RSub(center.imag, newImagRange),
         imagMax |-> RAdd(center.imag, newImagRange)]

\* (variant: the half ranges are taken off the maxima and added to the minima)
ZoomNewBoundsSwapped(currentBounds, image, squareX, squareY, squareSize) ==
    LET textureWidth == image.width
        textureHeight == image.height
        normSize == R(squareSize, textureWidth)
        adj == ZoomAdjust(currentBounds, textureWidth, textureHeight)
        adjustedRealRange == RSub(adj.realMax, adj.realMin)
        adjustedImagRange == RSub(adj.imagMax, adj.imagMin)
        center == ZoomCenter(currentBounds, image, squareX, squareY, squareSize)
        zoomFactor == RDiv(RInt(1), normSize)
        newRealRange == RDiv(adjustedRealRange, zoomFactor)
        newImagRange == RDiv(adjustedImagRange, zoomFactor)
    IN  [realMin |-> RAdd(center.real, RHalf(newRealRange)),
         realMax |-> RSub(center.real, RHalf(newRealRange)),
         imagMin |-> RAdd(center.imag, RHalf(newImagRange)),
         imagMax |-> RSub(center.imag, RHalf(newImagRange))]

\* zoomToSelection: the new view bounds (the four numbers of newBounds),
\* in the arithmetic the current bounds are kept in
ZoomNewBounds(currentBounds, image, squareX, squareY, squareSize) ==
    IF IsDouble(currentBounds.realMin)
    THEN ZoomNewBounds64(currentBounds, image, squareX, squareY, squareSize)
    ELSE
    LET textureWidth == image.width
        textureHeight == image.height
        normSize == R(squareSize, textureWidth)
        adj == ZoomAdjust(currentBounds, textureWidth, textureHeight)
        adjustedRealRange == RSub(adj.realMax, adj.realMin)
        adjustedImagRange == RSub(adj.imagMax, adj.imagMin)
        center == ZoomCenter(currentBounds, image, squareX, squareY, squareSize)
        zoomFactor == RDiv(RInt(1), normSize)
        newRealRange == RDiv(adjustedRealRange, zoomFactor)
        newImagRange == RDiv(adjustedImagRange, zoomFactor)
    IN  [realMin |-> RSub(center.real, RHalf(newRealRange)),
         realMax |-> RAdd(center.real, RHalf(newRealRange)),
         imagMin |-> RSub(center.imag, RHalf(newImagRange)),
         imagMax |-> RAdd(center.imag, RHalf(newImagRange))]

\* (variant: the square is always drawn to the right of and below the click)
SelectionSquareForDownRight(sx, sy, cx, cy) ==
    LET width == cx - sx
        height == cy - sy
        size == Min(Abs(width), Abs(height))
    IN  [x |-> sx, y |-> sy, size |-> size]

\* updateSelectionSquare: the square for a drag from (sx, sy) to (cx, cy)
SelectionSquareFor(sx, sy, cx, cy) ==
    LET width == cx - sx
        height == cy - sy
        size == Min(Abs(width), Abs(height))
    IN  [x |-> IF width < 0 THEN sx - size ELSE sx,
         y |-> IF height < 0 THEN sy - size ELSE sy,
         size |-> size]

\* Phaser pointer predicates used by the handlers, over the buttons held
\* after the event and the button the event is about
LeftButtonDown(left, right) == left
RightButtonDown(left, right) == right
PointerIsDown(left, right) == left \/ right
LeftButtonReleased(button, left, right) ==
    button = "left" /\ ~PointerIsDown(left, right)

----------------------------------------------------------------------------
(* GameScene: state after construction *)

\* the scene constructed, for a camera of the size c and the view bounds b
SceneStartAt(c, b) ==
    /\ created = FALSE
    /\ camW = c[1] /\ camH = c[2]
    /\ currentViewBounds = b
    /\ zoomHistory = <<>>
    /\ aliases = {}
    /\ lastViewCall = "none"
    /\ mandelbrotRenderer = NULL
    /\ mandelbrotImage = NULL
    /\ selectionSquare = NULL
    /\ isDrawing = FALSE
    /\ startX = 0
    /\ startY = 0
    /\ currentSquareSize = 0
    /\ currentSquareX = 0
    /\ currentSquareY = 0
    /\ loadingText = NULL
    /\ texts = {}
    /\ timers = <<>>
    /\ images = 0
    /\ textureKeys = {}
    /\ leftHeld = FALSE
    /\ rightHeld = FALSE

SceneStart == \E c \in CamSizes : SceneStartAt(c, DefaultBounds)

\* the scene, the moves of its drags not being observed
SceneInit == SceneStart /\ drawnInDrag = "unobserved"

\* the fields and locals of a render() that has not begun, and no object
\* handed out by getViewBounds()
RenderNotBegun ==
    /\ imageData = NULL
    /\ adjusted = NULL
    /\ pixelX = 0
    /\ pixelY = 0
    /\ real = RInt(0)
    /\ imag = RInt(0)
    /\ zReal = RInt(0)
    /\ zImag = RInt(0)
    /\ iter = 0
    /\ iterations = 0
    /\ written = <<>>
    /\ renders = 0
    /\ returned = NULL

\* no call of render() is followed
RenderIdle == renderer = NULL /\ pc = "idle" /\ RenderNotBegun

Init == SceneInit /\ RenderIdle

pointerVars == <<isDrawing, startX, startY>>
squareVars == <<currentSquareSize, currentSquareX, currentSquareY, drawnInDrag>>
viewVars == <<currentViewBounds, zoomHistory, aliases, lastViewCall>>
displayVars == <<mandelbrotRenderer, mandelbrotImage, images, textureKeys>>
cameraVars == <<created, camW, camH>>

----------------------------------------------------------------------------
(* GameScene: steps shared by the handlers *)

\* this.loadingText = this.add.text(...), over the set of live texts `live'
ShowLoadingText(live) ==
    /\ Cardinality(live) < MaxTexts
    /\ loadingText' = [id |-> FreshId(live)]
    /\ texts' = live \cup {FreshId(live)}

\* this.time.delayedCall(100, () => this.renderMandelbrotSet(width, height))
DelayedRender(width, height) ==
    /\ Len(timers) < MaxTimers
    /\ timers' = Append(timers, [width |-> width, height |-> height])

\* (variant: the graphics object is dropped instead of cleared)
ClearSelectionDrops == selectionSquare' = NULL

\* if (this.selectionSquare) this.selectionSquare.clear()
ClearSelection ==
    selectionSquare' =
        IF selectionSquare = NULL THEN NULL ELSE [depth |-> SelectionDepth]

\* renderMandelbrotSet: side of the square buffer for a width x height panel
SquareSize(width, height) ==
    LET renderWidth == Floor(width)
        renderHeight == Floor(height)
    IN  Min(renderWidth, renderHeight)

\* (variant: the image of the previous render is not destroyed)
RenderMandelbrotSetKeepsImage(width, height) ==
    LET squareSize == SquareSize(width, height)
    IN  /\ mandelbrotRenderer' =
               NewRenderer(squareSize, squareSize, RenderIterations,
                           currentViewBounds)
        /\ aliases' = BindTo(aliases, RefRenderer, RefCurrent)
        /\ textureKeys' = (textureKeys \ {"mandelbrot"}) \cup {"mandelbrot"}
        /\ images' = images + 1
        /\ mandelbrotImage' =
               [x |-> RHalf(width), y |-> RHalf(height),
                width |-> squareSize, height |-> squareSize]
        /\ texts' = IF loadingText = NULL THEN texts
                    ELSE texts \ {loadingText.id}
        /\ loadingText' = NULL
        /\ selectionSquare' =
               IF selectionSquare = NULL THEN [depth |-> SelectionDepth]
               ELSE selectionSquare

\* renderMandelbrotSet(width, height), with setupMouseInput on first render
RenderMandelbrotSet(width, height) ==
    LET squareSize == SquareSize(width, height)
    IN  /\ mandelbrotRenderer' =
               NewRenderer(squareSize, squareSize, RenderIterations,
                           currentViewBounds)
        /\ aliases' = BindTo(aliases, RefRenderer, RefCurrent)
        /\ textureKeys' = (textureKeys \ {"mandelbrot"}) \cup {"mandelbrot"}
        /\ images' = (IF mandelbrotImage = NULL THEN images ELSE images - 1) + 1
        /\ mandelbrotImage' =
               [x |-> RHalf(width), y |-> RHalf(height),
                width |-> squareSize, height |-> squareSize]
        /\ texts' = IF loadingText = NULL THEN texts
                    ELSE texts \ {loadingText.id}
        /\ loadingText' = NULL
        /\ selectionSquare' =
               IF selectionSquare = NULL THEN [depth |-> SelectionDepth]
               ELSE selectionSquare

\* (variant: the push comes after the bounds were replaced)
HistoryPushNew(history, current) ==
    Append(history,
           CopyBounds(ZoomNewBounds(current, mandelbrotImage, currentSquareX,
                                    currentSquareY, currentSquareSize)))

\* zoomToSelection: this.zoomHistory.push({ ...this.currentViewBounds })
HistoryPush(history, current) == Append(history, CopyBounds(current))

\* (variant: the object itself is pushed, without the spread copy)
PushAliasNoCopy(al, i) == BindTo(al, RefHistory(i), RefCurrent)

\* ... whose new last entry, at index i, holds the newly created copy
PushAlias(al, i) == BindNew(al, RefHistory(i))

\* (variant: shift() instead of pop())
HistoryShift(history) == Tail(history)

\* zoomOut: the history left by this.zoomHistory.pop()
HistoryPop(history) == SubSeq(history, 1, Len(history) - 1)

\* (variant: the oldest entry instead of the newest)
HistoryOldest(history) == history[1]

\* zoomOut: the object this.zoomHistory.pop() returns
HistoryTop(history) == history[Len(history)]

\* the zoom-ins followed from the bounds b
DepthLimit(b) == IF IsDouble(b.realMin) THEN MaxDeepDepth ELSE MaxDepth

\* zoomToSelection()
ZoomToSelection ==
    IF mandelbrotRenderer = NULL \/ mandelbrotImage = NULL
    THEN UNCHANGED <<viewVars, selectionSquare, loadingText, texts, timers>>
    ELSE LET newBounds == ZoomNewBounds(currentViewBounds, mandelbrotImage,
                                        currentSquareX, currentSquareY,
                                        currentSquareSize)
         IN  /\ Len(zoomHistory) < DepthLimit(currentViewBounds)
             /\ zoomHistory' = HistoryPush(zoomHistory, currentViewBounds)
             /\ currentViewBounds' = newBounds
             /\ lastViewCall' = "zoomIn"
             /\ aliases' = BindNew(PushAlias(aliases, Len(zoomHistory) + 1),
                                   RefCurrent)
             /\ ClearSelection
             /\ ShowLoadingText(texts)
             /\ DelayedRender(camW, camH)

\* (variant: the emptiness check comes after the re-render was scheduled)
ZoomOutEmptyRerender ==
    /\ lastViewCall' = "zoomOutEmpty"
    /\ UNCHANGED <<currentViewBounds, zoomHistory, aliases>>
    /\ ClearSelection
    /\ ShowLoadingText(texts)
    /\ DelayedRender(camW, camH)

\* zoomOut: the early return on an empty history
ZoomOutEmpty ==
    /\ lastViewCall' = "zoomOutEmpty"
    /\ UNCHANGED <<currentViewBounds, zoomHistory, aliases,
                   selectionSquare, loadingText, texts, timers>>

\* (variant: the restored view is not rendered again)
ZoomOutNoRender ==
    IF Len(zoomHistory) = 0
    THEN ZoomOutEmpty
    ELSE /\ currentViewBounds' = HistoryTop(zoomHistory)
         /\ lastViewCall' = "zoomOut"
         /\ zoomHistory' = HistoryPop(zoomHistory)
         /\ aliases' = BindNew(BindTo(aliases, RefCurrent,
                                      RefHistory(Len(zoomHistory))),
                               RefHistory(Len(zoomHistory)))
         /\ ClearSelection
         /\ UNCHANGED <<loadingText, texts, timers>>

\* zoomOut()
ZoomOut ==
    IF Len(zoomHistory) = 0
    THEN ZoomOutEmpty
    ELSE /\ currentViewBounds' = HistoryTop(zoomHistory)
         /\ lastViewCall' = "zoomOut"
         /\ zoomHistory' = HistoryPop(zoomHistory)
         /\ aliases' = BindNew(BindTo(aliases, RefCurrent,
                                      RefHistory(Len(zoomHistory))),
                               RefHistory(Len(zoomHistory)))
         /\ ClearSelection
         /\ ShowLoadingText(texts)
         /\ DelayedRender(camW, camH)

\* what the observer of the drags records for `value'
Observed(value) == IF drawnInDrag = "unobserved" THEN drawnInDrag ELSE value

\* updateSelectionSquare(currentX, currentY)
UpdateSelectionSquare(currentX, currentY) ==
    IF selectionSquare = NULL
    THEN UNCHANGED <<squareVars, selectionSquare>>
    ELSE LET sq == SelectionSquareFor(startX, startY, currentX, currentY)
         IN  /\ currentSquareX' = sq.x
             /\ currentSquareY' = sq.y
             /\ currentSquareSize' = sq.size
             /\ drawnInDrag' = Observed("yes")
             /\ selectionSquare' = [depth |-> SelectionDepth]

----------------------------------------------------------------------------
(* GameScene: one action per handler *)

\* create()
Create ==
    /\ ~created
    /\ created' = TRUE
    /\ ShowLoadingText(texts)
    /\ DelayedRender(camW, camH)
    /\ UNCHANGED <<camW, camH, viewVars, displayVars, selectionSquare,
                   pointerVars, squareVars, leftHeld, rightHeld>>
    /\ UNCHANGED renderVars

\* (variant: the resize goes back to the initial view)
HandleResizeResetsView(w, h) ==
    /\ created
    /\ camW' = w
    /\ camH' = h
    /\ currentViewBounds' = DefaultBounds
    /\ zoomHistory' = <<>>
    /\ aliases' = {}
    /\ ClearSelection
    /\ ShowLoadingText(IF loadingText = NULL THEN texts
                       ELSE texts \ {loadingText.id})
    /\ DelayedRender(w, h)
    /\ UNCHANGED <<created, lastViewCall, displayVars, pointerVars,
                   squareVars, leftHeld, rightHeld>>
    /\ UNCHANGED renderVars

\* handleResize, after the scale manager gave the camera the size (w, h)
HandleResize(w, h) ==
    /\ created
    /\ camW' = w
    /\ camH' = h
    /\ ClearSelection
    /\ ShowLoadingText(IF loadingText = NULL THEN texts
                       ELSE texts \ {loadingText.id})
    /\ DelayedRender(w, h)
    /\ UNCHANGED <<created, viewVars, displayVars, pointerVars, squareVars,
                   leftHeld, rightHeld>>
    /\ UNCHANGED renderVars

\* the oldest pending delayedCall fires
TimerFire ==
    /\ timers # <<>>
    /\ RenderMandelbrotSet(Head(timers).width, Head(timers).height)
    /\ timers' = Tail(timers)
    /\ UNCHANGED <<cameraVars, currentViewBounds, zoomHistory, lastViewCall,
                   pointerVars, squareVars, leftHeld, rightHeld>>
    /\ UNCHANGED renderVars

\* a button goes down at (x, y): the 'pointerdown' handler, once registered
PointerDown(button, x, y) ==
    /\ IF button = "left" THEN ~leftHeld /\ leftHeld' = TRUE
                               /\ UNCHANGED rightHeld
       ELSE ~rightHeld /\ rightHeld' = TRUE /\ UNCHANGED leftHeld
    /\ IF selectionSquare = NULL
       THEN UNCHANGED <<pointerVars, viewVars, selectionSquare, loadingText,
                        texts, timers>>
       ELSE IF LeftButtonDown(leftHeld', rightHeld')
            THEN /\ isDrawing' = TRUE
                 /\ startX' = x
                 /\ startY' = y
                 /\ UNCHANGED <<viewVars, selectionSquare, loadingText, texts,
                                timers>>
            ELSE IF RightButtonDown(leftHeld', rightHeld')
                 THEN ZoomOut /\ UNCHANGED pointerVars
                 ELSE UNCHANGED <<pointerVars, viewVars, selectionSquare,
                                  loadingText, texts, timers>>
    /\ drawnInDrag' = IF button = "left" THEN Observed("no") ELSE drawnInDrag
    /\ UNCHANGED <<cameraVars, displayVars, currentSquareSize, currentSquareX,
                   currentSquareY>>
    /\ UNCHANGED renderVars

\* the pointer moves to (x, y): the 'pointermove' handler, once registered
PointerMove(x, y) ==
    /\ IF selectionSquare # NULL /\ isDrawing
          /\ PointerIsDown(leftHeld, rightHeld)
       THEN UpdateSelectionSquare(x, y)
       ELSE UNCHANGED <<squareVars, selectionSquare>>
    /\ UNCHANGED <<cameraVars, viewVars, displayVars, pointerVars,
                   loadingText, texts, timers, leftHeld, rightHeld>>
    /\ UNCHANGED renderVars

\* (variant: the released square zooms whatever its size)
PointerUpAnySize(button) ==
    /\ IF button = "left" THEN leftHeld /\ leftHeld' = FALSE
                               /\ UNCHANGED rightHeld
       ELSE rightHeld /\ rightHeld' = FALSE /\ UNCHANGED leftHeld
    /\ IF selectionSquare # NULL
          /\ LeftButtonReleased(button, leftHeld', rightHeld') /\ isDrawing
       THEN /\ isDrawing' = FALSE
            /\ ZoomToSelection
       ELSE UNCHANGED <<isDrawing, viewVars, selectionSquare, loadingText,
                        texts, timers>>
    /\ drawnInDrag' = IF button = "left" THEN Observed("no") ELSE drawnInDrag
    /\ UNCHANGED <<cameraVars, displayVars, startX, startY, currentSquareSize,
                   currentSquareX, currentSquareY>>
    /\ UNCHANGED renderVars

\* a button goes up: the 'pointerup' handler, once registered
PointerUp(button) ==
    /\ IF button = "left" THEN leftHeld /\ leftHeld' = FALSE
                               /\ UNCHANGED rightHeld
       ELSE rightHeld /\ rightHeld' = FALSE /\ UNCHANGED leftHeld
    /\ IF selectionSquare # NULL
          /\ LeftButtonReleased(button, leftHeld', rightHeld') /\ isDrawing
       THEN /\ isDrawing' = FALSE
            /\ IF currentSquareSize > MinSquareSize
               THEN ZoomToSelection
               ELSE ClearSelection
                    /\ UNCHANGED <<viewVars, loadingText, texts, timers>>
       ELSE UNCHANGED <<isDrawing, viewVars, selectionSquare, loadingText,
                        texts, timers>>
    /\ drawnInDrag' = IF button = "left" THEN Observed("no") ELSE drawnInDrag
    /\ UNCHANGED <<cameraVars, displayVars, startX, startY, currentSquareSize,
                   currentSquareX, currentSquareY>>
    /\ UNCHANGED renderVars

Next ==
    \/ Create
    \/ \E c \in CamSizes : HandleResize(c[1], c[2])
    \/ TimerFire
    \/ \E b \in {"left", "right"}, p \in DownPoints : PointerDown(b, p[1], p[2])
    \/ \E p \in MovePoints : PointerMove(p[1], p[2])
    \/ \E b \in {"left", "right"} : PointerUp(b)

Spec == Init /\ [][Next]_vars

\* the scene with the moves of its drags observed
DragInit == SceneStart /\ drawnInDrag = "no" /\ RenderIdle

DragSpec == DragInit /\ [][Next]_vars

\* the literal of the GameScene constructor, as the binary64 numbers it is
DefaultBounds64 ==
    [realMin |-> ToDouble(DefaultBounds.realMin),
     realMax |-> ToDouble(DefaultBounds.realMax),
     imagMin |-> ToDouble(DefaultBounds.imagMin),
     imagMax |-> ToDouble(DefaultBounds.imagMax)]

\* a panel of 800 by 800 pixels, and a drag over it from DeepDown to
\* DeepMove: a square of 11 pixels
DeepCamSize == <<RInt(800), RInt(800)>>
DeepDown == <<100, 100>>
DeepMove == <<111, 111>>

\* the scene with its view bounds kept in binary64
DeepInit ==
    /\ SceneStartAt(DeepCamSize, DefaultBounds64)
    /\ drawnInDrag = "unobserved"
    /\ RenderIdle

\* the scene whose only drag is the one from DeepDown to DeepMove
DeepNext ==
    \/ Create
    \/ TimerFire
    \/ \E b \in {"left", "right"} : PointerDown(b, DeepDown[1], DeepDown[2])
    \/ PointerMove(DeepMove[1], DeepMove[2])
    \/ \E b \in {"left", "right"} : PointerUp(b)

DeepSpec == DeepInit /\ [][DeepNext]_vars

\* a drag over the same panel from its top-left corner, CornerDown, to
\* CornerMove: a square of 188 pixels that touches two edges of the image
CornerDown == <<0, 0>>
CornerMove == <<188, 188>>

\* the scene whose only drag is the one from CornerDown to CornerMove
CornerNext ==
    \/ Create
    \/ TimerFire
    \/ \E b \in {"left", "right"} :
           PointerDown(b, CornerDown[1], CornerDown[2])
    \/ PointerMove(CornerMove[1], CornerMove[2])
    \/ \E b \in {"left", "right"} : PointerUp(b)

CornerSpec == DeepInit /\ [][CornerNext]_vars

----------------------------------------------------------------------------
(* MandelbrotRenderer: one call of render(), pass by pass *)

\* the renderers followed: sizes, iteration limits and view bounds
RenderSizes ==
    { <<1, 1>>, <<2, 2>>, <<2, 1>>, <<1, 2>>, <<3, 2>>, <<2, 3>>,
      <<400, 300>> }

\* 0 is a limit the constructor takes as it takes any other
IterationCounts == { 0, 1, 2, 3, 4 }

Bounds(realMin, realMax, imagMin, imagMax) ==
    [realMin |-> RInt(realMin), realMax |-> RInt(realMax),
     imagMin |-> RInt(imagMin), imagMax |-> RInt(imagMax)]

RenderBounds ==
    { DefaultBounds, Bounds(0, 4, 0, 4), Bounds(0, 2, 0, 2),
      Bounds(-2, 2, -2, 2), Bounds(-2, 2, -1, 1), Bounds(-1, 1, -2, 2) }

\* new MandelbrotRenderer(width, height, maxIterations, viewBounds), about
\* to be rendered
RenderInit ==
    /\ SceneInit
    /\ camW = RInt(16)
    /\ \E size \in RenderSizes, maxIter \in IterationCounts,
          bounds \in RenderBounds :
           renderer = NewRenderer(size[1], size[2], maxIter, bounds)
    /\ pc = "render"
    /\ RenderNotBegun

\* (variant: the adjusted bounds are stored as the view bounds)
RenderBeginStoresAdjusted ==
    /\ pc = "render"
    /\ imageData' = CreateImageData(renderer.width, renderer.height)
    /\ adjusted' = RenderAdjust(renderer.viewBounds, renderer.width,
                                renderer.height)
    /\ renderer' = [renderer EXCEPT !.viewBounds = adjusted']
    /\ pixelX' = 0
    /\ pixelY' = 0
    /\ written' = <<>>
    /\ pc' = "loop"
    /\ UNCHANGED <<sceneVars, kernelVars, iterations, callerVars>>

\* render(): the image data is created and the view bounds are adjusted
RenderBegin ==
    /\ pc = "render"
    /\ imageData' = CreateImageData(renderer.width, renderer.height)
    /\ adjusted' = RenderAdjust(renderer.viewBounds, renderer.width,
                                renderer.height)
    /\ pixelX' = 0
    /\ pixelY' = 0
    /\ written' = <<>>
    /\ pc' = "loop"
    /\ UNCHANGED <<sceneVars, renderer, kernelVars, iterations, callerVars>>

\* render(): the body of the loops begins for pixel (x, y): its point is
\* computed and mandelbrotIterations is entered
RenderPixel ==
    /\ pc = "loop"
    /\ pixelY < renderer.height /\ pixelX < renderer.width
    /\ renderer.width * renderer.height <= MaxPixels
    /\ LET point == PixelToPlane(adjusted, renderer.width, renderer.height,
                                 RInt(pixelX), RInt(pixelY))
       IN  real' = point.real /\ imag' = point.imag
    /\ zReal' = KernelStart(real', imag').zReal
    /\ zImag' = KernelStart(real', imag').zImag
    /\ iter' = 0
    /\ pc' = "iterate"
    /\ UNCHANGED <<sceneVars, renderer, imageData, adjusted, pixelX, pixelY,
                   iterations, written, callerVars>>

\* render(): the loop over x ends, the loop over y goes on
RenderNextRow ==
    /\ pc = "loop"
    /\ pixelY < renderer.height /\ ~(pixelX < renderer.width)
    /\ pixelY' = pixelY + 1
    /\ pixelX' = 0
    /\ UNCHANGED <<sceneVars, renderer, pc, imageData, adjusted, kernelVars,
                   iterations, written, callerVars>>

\* render(): the loop over y ends, the image data is returned
RenderReturn ==
    /\ pc = "loop"
    /\ ~(pixelY < renderer.height)
    /\ pc' = "done"
    /\ renders' = renders + 1
    /\ UNCHANGED <<sceneVars, renderer, imageData, adjusted, pixelX, pixelY,
                   kernelVars, iterations, written, returned>>

\* mandelbrotIterations: one pass of the loop
KernelPass ==
    /\ pc = "iterate"
    /\ iter < renderer.maxIterations
    /\ LET zRealSquared == RMul(zReal, zReal)
           zImagSquared == RMul(zImag, zImag)
       IN  IF Escaped(zRealSquared, zImagSquared)
           THEN /\ iterations' = iter
                /\ pc' = "write"
                /\ UNCHANGED <<zReal, zImag, iter>>
           ELSE LET z == NextZ(zReal, zImag, real, imag)
                IN  /\ zReal' = z.zReal
                    /\ zImag' = z.zImag
                    /\ iter' = iter + 1
                    /\ UNCHANGED <<iterations, pc>>
    /\ UNCHANGED <<sceneVars, renderer, imageData, adjusted, pixelX, pixelY,
                   real, imag, written, callerVars>>

\* mandelbrotIterations: the loop ends without an escape
KernelExhausted ==
    /\ pc = "iterate"
    /\ ~(iter < renderer.maxIterations)
    /\ iterations' = renderer.maxIterations
    /\ pc' = "write"
    /\ UNCHANGED <<sceneVars, renderer, imageData, adjusted, pixelX, pixelY,
                   kernelVars, written, callerVars>>

\* render(): the colour of the pixel is written and the loop over x advances
WritePixel ==
    /\ pc = "write"
    /\ LET color == GetColor(iterations, renderer.maxIterations)
           index == PixelIndex(renderer, pixelX, pixelY)
       IN  /\ imageData' =
                  SetData(SetData(SetData(SetData(imageData, index, color.r),
                                          index + 1, color.g),
                                  index + 2, color.b),
                          index + 3, 255)
           /\ written' = Append(written, [x |-> pixelX, y |-> pixelY,
                                          index |-> index,
                                          iterations |-> iterations])
    /\ pixelX' = pixelX + 1
    /\ pc' = "loop"
    /\ UNCHANGED <<sceneVars, renderer, adjusted, pixelY, kernelVars,
                   iterations, callerVars>>

RenderNext ==
    \/ RenderBegin
    \/ RenderPixel
    \/ RenderNextRow
    \/ RenderReturn
    \/ KernelPass
    \/ KernelExhausted
    \/ WritePixel

RenderSpec == RenderInit /\ [][RenderNext]_vars

----------------------------------------------------------------------------
(* MandelbrotRenderer: its calls one after the other.  Between two calls   *)
(* of render() a caller may give the renderer other view bounds, ask for   *)
(* its view bounds, and change the object it got.                          *)

\* the scene but for the references to ViewBounds objects
sceneButAliases ==
    <<cameraVars, currentViewBounds, zoomHistory, lastViewCall, displayVars,
      selectionSquare, pointerVars, squareVars, loadingText, texts, timers,
      leftHeld, rightHeld>>

\* what a call of render() reads and writes, but for the renderer itself
renderLocals ==
    <<imageData, adjusted, pixelX, pixelY, kernelVars, iterations, written>>

\* the reference a caller holds to the object getViewBounds() returned
RefReturned == <<"getViewBounds()", 0>>

\* no call is running on the renderer
BetweenCalls == pc \in { "render", "done" }

\* render() is called again on the renderer
RenderAgain ==
    /\ pc = "done"
    /\ renders < MaxRenders
    /\ pc' = "render"
    /\ UNCHANGED <<sceneVars, renderer, renderLocals, callerVars>>

\* setViewBounds(bounds), with an object the caller makes for the call
SetViewBounds(bounds) ==
    /\ pc = "done"
    /\ renderer' = [renderer EXCEPT !.viewBounds = bounds]
    /\ aliases' = BindNew(aliases, RefRenderer)
    /\ UNCHANGED <<sceneButAliases, pc, renderLocals, callerVars>>

\* (variant: the object of the renderer itself is returned)
GetViewBoundsNoCopy ==
    /\ BetweenCalls
    /\ returned' = renderer.viewBounds
    /\ aliases' = BindTo(aliases, RefReturned, RefRenderer)
    /\ UNCHANGED <<sceneButAliases, renderer, pc, renderLocals, renders>>

\* getViewBounds(): { ...this.viewBounds }
GetViewBounds ==
    /\ BetweenCalls
    /\ returned' = CopyBounds(renderer.viewBounds)
    /\ aliases' = BindNew(aliases, RefReturned)
    /\ UNCHANGED <<sceneButAliases, renderer, pc, renderLocals, renders>>

\* the caller assigns the fields of the object it got from getViewBounds():
\* every reference to that object sees the new values
ChangeReturned(bounds) ==
    /\ BetweenCalls
    /\ returned # NULL
    /\ bounds # returned
    /\ returned' = bounds
    /\ renderer' = IF SameObject(aliases, RefReturned, RefRenderer)
                   THEN [renderer EXCEPT !.viewBounds = bounds]
                   ELSE renderer
    /\ UNCHANGED <<sceneVars, pc, renderLocals, renders>>

RendererNext ==
    \/ RenderBegin
    \/ RenderPixel
    \/ RenderNextRow
    \/ RenderReturn
    \/ KernelPass
    \/ KernelExhausted
    \/ WritePixel
    \/ RenderAgain
    \/ \E bounds \in RenderBounds : SetViewBounds(bounds)
    \/ GetViewBounds
    \/ \E bounds \in RenderBounds : ChangeReturned(bounds)

RendererSpec == RenderInit /\ [][RendererNext]_vars

----------------------------------------------------------------------------
(* MandelbrotRenderer.getColor over its whole domain: render() with one    *)
(* pixel, at the call of getColor, for every iteration count from 0 to the *)
(* limit.                                                                  *)

\* the limits followed: the small ones, and the one the scene uses
ColorIterationCounts == IterationCounts \cup { RenderIterations }

ColorInit ==
    /\ SceneInit
    /\ camW = RInt(16)
    /\ \E maxIter \in ColorIterationCounts :
           /\ renderer = NewRenderer(1, 1, maxIter, Bounds(-2, 2, -2, 2))
           /\ iterations \in 0..maxIter
    /\ pc = "write"
    /\ imageData = CreateImageData(1, 1)
    /\ adjusted = RenderAdjust(renderer.viewBounds, 1, 1)
    /\ pixelX = 0
    /\ pixelY = 0
    /\ real = RInt(-2)
    /\ imag = RInt(-2)
    /\ zReal = RInt(0)
    /\ zImag = RInt(0)
    /\ iter = iterations
    /\ written = <<>>
    /\ renders = 0
    /\ returned = NULL

ColorNext ==
    \/ WritePixel
    \/ RenderNextRow
    \/ RenderReturn

ColorSpec == ColorInit /\ [][ColorNext]_vars

----------------------------------------------------------------------------
(* Vocabulary of the properties *)

\* the step is a call of zoomOut: the right button goes down alone, with the
\* handlers registered
ZoomOutCalled ==
    selectionSquare # NULL /\ ~rightHeld /\ rightHeld' /\ ~leftHeld

\* the step is a call of zoomToSelection that runs to its end: the left
\* button is released, alone, at the end of a drag whose square is big enough
ZoomInCalled ==
    /\ selectionSquare # NULL /\ mandelbrotRenderer # NULL
    /\ mandelbrotImage # NULL
    /\ leftHeld /\ ~leftHeld' /\ ~rightHeld
    /\ isDrawing /\ currentSquareSize > MinSquareSize

\* centre of a rectangle of the plane
CenterOf(b) ==
    [real |-> RHalf(RAdd(b.realMin, b.realMax)),
     imag |-> RHalf(RAdd(b.imagMin, b.imagMax))]

\* the stored selection square in pixels of the displayed buffer
LocalX == SquareLeftInTexture(mandelbrotImage, currentSquareX)
LocalY == SquareTopInTexture(mandelbrotImage, currentSquareY)

\* the rectangle the renderer maps onto a width x height buffer for the
\* current bounds
DisplayedRect ==
    RenderAdjust(currentViewBounds, mandelbrotImage.width,
                 mandelbrotImage.height)

\* the stored selection square covers the displayed buffer exactly
WholeBufferSelected ==
    /\ mandelbrotImage # NULL
    /\ LocalX = RInt(0) /\ LocalY = RInt(0)
    /\ currentSquareSize = mandelbrotImage.width

\* the state is the one a zoom-in on the stored square has just produced
JustZoomedIn ==
    /\ lastViewCall = "zoomIn" /\ Len(zoomHistory) >= 1
    /\ mandelbrotImage # NULL
    /\ currentViewBounds =
           ZoomNewBounds(HistoryTop(zoomHistory), mandelbrotImage,
                         currentSquareX, currentSquareY, currentSquareSize)

----------------------------------------------------------------------------
(* C1 -- stack law.  Zoom-ins followed by as many zoom-outs bring the view  *)
(* back: whenever the history is empty the current bounds are the bounds   *)
(* the view had when the history was last empty, which is the root view,   *)
(* and while k entries are stacked the root view is kept at the bottom.    *)

StackLaw ==
    /\ Len(zoomHistory) = 0 => currentViewBounds = DefaultBounds
    /\ Len(zoomHistory) > 0 => zoomHistory[1] = DefaultBounds

\* the history is empty again after a zoomed view was rendered and undone
StackLawWitness ==
    /\ lastViewCall = "zoomOut" /\ Len(zoomHistory) = 0
    /\ mandelbrotRenderer # NULL
    /\ mandelbrotRenderer.viewBounds # DefaultBounds

----------------------------------------------------------------------------
(* C2 -- what was rendered and what is zoomed into agree.  Every call of   *)
(* zoomToSelection reads view bounds and buffer dimensions that are those  *)
(* the renderer used for the image displayed at that moment.               *)

ZoomReadsDisplayedView ==
    [][ZoomInCalled =>
          /\ currentViewBounds = mandelbrotRenderer.viewBounds
          /\ mandelbrotImage.width = mandelbrotRenderer.width
          /\ mandelbrotImage.height = mandelbrotRenderer.height]_vars

----------------------------------------------------------------------------
(* C3 -- zoomOut on a non-empty history is a LIFO pop.  The current bounds *)
(* become the last entry pushed, that entry alone is removed, and the      *)
(* entries below it stay as they are, in their order.                      *)

ZoomOutIsLifoPop ==
    [][(ZoomOutCalled /\ Len(zoomHistory) > 0) =>
          /\ currentViewBounds' = zoomHistory[Len(zoomHistory)]
          /\ Len(zoomHistory') = Len(zoomHistory) - 1
          /\ \A i \in 1..Len(zoomHistory') : zoomHistory'[i] = zoomHistory[i]
      ]_vars

\* a zoom-out has popped an entry off a history that had deeper entries
ZoomOutIsLifoPopWitness ==
    lastViewCall = "zoomOut" /\ Len(zoomHistory) >= 1

----------------------------------------------------------------------------
(* C4 -- one push per completed zoom-in.  A zoom-in appends exactly one    *)
(* entry, equal to the bounds that were current before it and not to the   *)
(* bounds it installs, and no other step makes the history longer.         *)

PushOncePerZoomIn ==
    [][/\ ZoomInCalled => zoomHistory' = Append(zoomHistory, currentViewBounds)
       /\ Len(zoomHistory') > Len(zoomHistory) => ZoomInCalled
      ]_vars

\* a zoom-in has pushed the former bounds and installed different ones
PushOncePerZoomInWitness ==
    /\ JustZoomedIn
    /\ HistoryTop(zoomHistory) # currentViewBounds

----------------------------------------------------------------------------
(* C5 -- zoomOut on an empty history is a no-op.  Each such call leaves    *)
(* the current bounds and the history as they are, shows no loading text   *)
(* and schedules no render.                                                *)

EmptyZoomOutIsNoOp ==
    [][(ZoomOutCalled /\ Len(zoomHistory) = 0) =>
          UNCHANGED <<currentViewBounds, zoomHistory, loadingText, texts,
                      timers>>
      ]_vars

\* zoomOut has been called on an empty history
EmptyZoomOutIsNoOpWitness ==
    lastViewCall = "zoomOutEmpty" /\ Len(zoomHistory) = 0 /\ rightHeld

----------------------------------------------------------------------------
(* C6 -- the history never contains the current bounds.  No entry of the   *)
(* history has the four numbers of the current bounds.                     *)

HistoryNeverHoldsCurrent ==
    \A i \in 1..Len(zoomHistory) : zoomHistory[i] # currentViewBounds

----------------------------------------------------------------------------
(* C7 -- copy semantics.  No entry of the history is the object the        *)
(* current bounds reference, nor the object a renderer holds.              *)

HistoryEntriesAreCopies ==
    \A i \in 1..Len(zoomHistory) :
        /\ ~SameObject(aliases, RefHistory(i), RefCurrent)
        /\ ~SameObject(aliases, RefHistory(i), RefRenderer)
        /\ \A j \in 1..Len(zoomHistory) :
               SameObject(aliases, RefHistory(i), RefHistory(j)) => i = j

\* entries are stacked while the renderer shares the object of the current
\* bounds
HistoryEntriesAreCopiesWitness ==
    /\ Len(zoomHistory) >= 1
    /\ {RefCurrent, RefRenderer} \in aliases

----------------------------------------------------------------------------
(* C8 -- the centre of the selection square becomes the centre of the new  *)
(* view.  For every buffer the scene displays and every selection, a       *)
(* zoom-in installs bounds whose centre is the plane point the renderer's  *)
(* pixel-to-plane mapping, for the bounds zoomed from and the displayed    *)
(* buffer, gives to the pixel position (localX + size/2, localY + size/2). *)

CenterBecomesViewCenter ==
    [][ZoomInCalled =>
          CenterOf(currentViewBounds') =
              PixelToPlane(DisplayedRect, mandelbrotImage.width,
                           mandelbrotImage.height,
                           RAdd(LocalX, RHalf(RInt(currentSquareSize))),
                           RAdd(LocalY, RHalf(RInt(currentSquareSize))))
      ]_vars

\* a zoom-in on a square smaller than the buffer, whose corner is at
\* different distances from the left and the top edge of the buffer
CenterBecomesViewCenterWitness ==
    /\ JustZoomedIn
    /\ currentSquareSize < mandelbrotImage.width
    /\ LocalX # LocalY

----------------------------------------------------------------------------
(* C9 -- the content of the selection square fills the panel.  The new     *)
(* bounds are the plane rectangle the square covers under the mapping of   *)
(* the displayed buffer: their corners are the plane points of the         *)
(* square's corners, pixel (0,0) of the buffer the scheduled render        *)
(* produces maps to the point of the square's upper-left corner, and the   *)
(* new ranges are the adjusted ranges times size/width and size/height.    *)

----------------------------------------------------------------------------
(* C10 -- round trip.  A zoom-in on a selection that covers the whole of   *)
(* an N x N buffer (corner at the buffer's origin, size N) installs the    *)
(* aspect-ratio-adjusted bounds of the view zoomed from.                   *)

WholeBufferZoomKeepsView ==
    [][(ZoomInCalled /\ WholeBufferSelected
            /\ mandelbrotImage.width = mandelbrotImage.height) =>
          currentViewBounds' = DisplayedRect
      ]_vars

\* a zoom-in on the whole buffer has been made
WholeBufferZoomKeepsViewWitness ==
    /\ JustZoomedIn
    /\ WholeBufferSelected
    /\ mandelbrotImage.width = mandelbrotImage.height

----------------------------------------------------------------------------
(* Vocabulary of the properties of render() *)

RealRangeOf(b) == RSub(b.realMax, b.realMin)
ImagRangeOf(b) == RSub(b.imagMax, b.imagMin)

\* render() has adjusted the bounds of the renderer
Adjusted == adjusted # NULL

\* this.width / this.height and the aspect of the requested bounds
CanvasAspect == R(renderer.width, renderer.height)
SetAspect ==
    RDiv(RealRangeOf(renderer.viewBounds), ImagRangeOf(renderer.viewBounds))

\* a <= b
RLeq(a, b) == ~RLess(b, a)

----------------------------------------------------------------------------
(* C11 -- the rendered region is never stretched.  For every size and      *)
(* every bounds rendered, the adjusted real range over the adjusted        *)
(* imaginary range is width over height, so that one pixel spans the same  *)
(* distance of the plane on both axes.                                     *)

NeverStretched ==
    Adjusted =>
        /\ RDiv(RealRangeOf(adjusted), ImagRangeOf(adjusted)) = CanvasAspect
        /\ RDiv(RealRangeOf(adjusted), RInt(renderer.width))
               = RDiv(ImagRangeOf(adjusted), RInt(renderer.height))

\* bounds were adjusted for a canvas taller than the requested region
NeverStretchedWitness ==
    /\ Adjusted
    /\ RLess(CanvasAspect, SetAspect)
    /\ adjusted # renderer.viewBounds

----------------------------------------------------------------------------
(* C12 -- the correction only widens and keeps the centres.  If the canvas *)
(* aspect exceeds the aspect of the bounds, the imaginary bounds are kept  *)
(* and the real range becomes imagRange * canvasAspect around the same     *)
(* real centre; otherwise the real bounds are kept and the imaginary range *)
(* becomes realRange / canvasAspect around the same imaginary centre.  In  *)
(* both cases the adjusted rectangle contains the requested bounds.        *)

AdjustOnlyWidens ==
    Adjusted =>
        LET b == renderer.viewBounds
        IN  /\ RLess(SetAspect, CanvasAspect) =>
                   /\ adjusted.imagMin = b.imagMin
                   /\ adjusted.imagMax = b.imagMax
                   /\ RealRangeOf(adjusted) = RMul(ImagRangeOf(b), CanvasAspect)
                   /\ CenterOf(adjusted).real = CenterOf(b).real
            /\ ~RLess(SetAspect, CanvasAspect) =>
                   /\ adjusted.realMin = b.realMin
                   /\ adjusted.realMax = b.realMax
                   /\ ImagRangeOf(adjusted) = RDiv(RealRangeOf(b), CanvasAspect)
                   /\ CenterOf(adjusted).imag = CenterOf(b).imag
            /\ RLeq(adjusted.realMin, b.realMin)
            /\ RLeq(b.realMax, adjusted.realMax)
            /\ RLeq(adjusted.imagMin, b.imagMin)
            /\ RLeq(b.imagMax, adjusted.imagMax)

\* the real range was widened around a centre that is not 0
AdjustOnlyWidensWitness ==
    /\ Adjusted
    /\ RLess(SetAspect, CanvasAspect)
    /\ RLess(adjusted.realMin, renderer.viewBounds.realMin)
    /\ CenterOf(renderer.viewBounds).real # RInt(0)

----------------------------------------------------------------------------
(* C13 -- the zoom path reproduces the renderer's adjustment.  For every   *)
(* bounds and every buffer size rendered, the adjusted rectangle that      *)
(* zoomToSelection computes for these bounds and this size is the one      *)
(* render() computed.                                                      *)

ZoomAdjustMatchesRender ==
    Adjusted =>
        ZoomAdjust(renderer.viewBounds, renderer.width, renderer.height)
            = adjusted

\* render() has changed the bounds of a renderer that is not square
ZoomAdjustMatchesRenderWitness ==
    /\ Adjusted
    /\ renderer.width # renderer.height
    /\ adjusted # renderer.viewBounds

----------------------------------------------------------------------------
(* C14 -- square canvas.  For every valid bounds and every square canvas   *)
(* the adjusted rectangle equals the original bounds.                      *)

SquareCanvasKeepsBounds ==
    (Adjusted /\ renderer.width = renderer.height) =>
        adjusted = renderer.viewBounds

\* C14 as amended: on a square canvas, bounds whose real and imaginary
\* ranges are equal are left as they are
SquareCanvasKeepsSquareBounds ==
    (/\ Adjusted
     /\ renderer.width = renderer.height
     /\ RealRangeOf(renderer.viewBounds) = ImagRangeOf(renderer.viewBounds))
        => adjusted = renderer.viewBounds

\* square bounds, not centred on the real axis, were adjusted for a square
\* canvas
SquareCanvasKeepsSquareBoundsWitness ==
    /\ Adjusted
    /\ renderer.width = renderer.height
    /\ RealRangeOf(renderer.viewBounds) = ImagRangeOf(renderer.viewBounds)
    /\ CenterOf(renderer.viewBounds).imag # RInt(0)

----------------------------------------------------------------------------
(* C15 -- concrete scenario.  For the default bounds and a 400 x 300       *)
(* output the branch of the wider canvas is taken: the real range becomes  *)
(* 16/3 around the centre -1/2, from -19/6 to 13/6, and the imaginary      *)
(* bounds stay -2 and 2.                                                   *)

DefaultBoundsAt400x300 ==
    (/\ Adjusted
     /\ renderer.width = 400 /\ renderer.height = 300
     /\ renderer.viewBounds = DefaultBounds) =>
        /\ RLess(SetAspect, CanvasAspect)
        /\ RealRangeOf(adjusted) = R(16, 3)
        /\ CenterOf(adjusted).real = R(-1, 2)
        /\ adjusted = [realMin |-> R(-19, 6), realMax |-> R(13, 6),
                       imagMin |-> RInt(-2), imagMax |-> RInt(2)]

\* the default bounds were adjusted for a 400 x 300 output
DefaultBoundsAt400x300Witness ==
    /\ Adjusted
    /\ renderer.width = 400 /\ renderer.height = 300
    /\ renderer.viewBounds = DefaultBounds

----------------------------------------------------------------------------
(* Vocabulary of the properties of mandelbrotIterations *)

\* mandelbrotIterations has returned `iterations' for the point (real, imag)
KernelReturned == pc = "write"

\* the step is a pass of the loop that computes z = z^2 + c
KernelUpdates == pc = "iterate" /\ iter' = iter + 1

\* the n-th iterate of z -> z^2 + c from z = 0, for c = (cr, ci)
RECURSIVE Iterate(_, _, _)
Iterate(cr, ci, n) ==
    IF n = 0 THEN [re |-> RInt(0), im |-> RInt(0)]
    ELSE LET z == Iterate(cr, ci, n - 1)
         IN  [re |-> RAdd(RSub(RMul(z.re, z.re), RMul(z.im, z.im)), cr),
              im |-> RAdd(RMul(RInt(2), RMul(z.re, z.im)), ci)]

\* re^2 + im^2
MagnitudeSquared(z) == RAdd(RMul(z.re, z.re), RMul(z.im, z.im))

\* the smallest i in from..(max - 1) whose iterate has re^2 + im^2 > 4, and
\* max if there is none
RECURSIVE FirstEscape(_, _, _, _)
FirstEscape(cr, ci, from, max) ==
    IF from >= max THEN max
    ELSE IF RLess(RInt(4), MagnitudeSquared(Iterate(cr, ci, from))) THEN from
    ELSE FirstEscape(cr, ci, from + 1, max)

----------------------------------------------------------------------------
(* C16 -- the kernel against its reference.  For every point and every     *)
(* positive maxIterations, mandelbrotIterations returns the smallest i in  *)
(* 0..maxIterations-1 whose iterate z_i (z_0 = 0, z_{n+1} = z_n^2 + c) has  *)
(* zReal^2 + zImag^2 > 4, and maxIterations if there is none; the origin   *)
(* returns maxIterations.                                                  *)

KernelMatchesReference ==
    KernelReturned =>
        /\ iterations = FirstEscape(real, imag, 0, renderer.maxIterations)
        /\ (real = RInt(0) /\ imag = RInt(0)) =>
               iterations = renderer.maxIterations

\* a point has escaped after several passes, before the limit
KernelMatchesReferenceWitness ==
    /\ KernelReturned
    /\ iterations = 3
    /\ renderer.maxIterations = 4

----------------------------------------------------------------------------
(* C17 -- escape-time boundary.  For the point (2, 0) the iteration        *)
(* returns 0, the escape test being the strict zReal^2 + zImag^2 > 4.      *)

BoundaryPointReturnsZero ==
    (KernelReturned /\ real = RInt(2) /\ imag = RInt(0)) => iterations = 0

\* C17 as amended: for the point (2, 0) the iteration returns 2, or
\* maxIterations if that is less: the strict test fails on z_0 = 0 and on
\* z_1 = 2 (4 > 4 is false) and succeeds on z_2 = 6
BoundaryPointReturnsTwo ==
    (KernelReturned /\ real = RInt(2) /\ imag = RInt(0)) =>
        iterations = Min(2, renderer.maxIterations)

\* the point (2, 0) has escaped before the limit
BoundaryPointReturnsTwoWitness ==
    /\ KernelReturned
    /\ real = RInt(2) /\ imag = RInt(0)
    /\ renderer.maxIterations > 2

----------------------------------------------------------------------------
(* C18 -- the kernel is numerically closed.  Every time z = z^2 + c is     *)
(* computed, the z that enters it has zReal^2 + zImag^2 <= 4.              *)

KernelClosed ==
    [][KernelUpdates =>
          RLeq(RAdd(RMul(zReal, zReal), RMul(zImag, zImag)), RInt(4))]_vars

\* an update has taken a z inside the radius to a z outside of it
KernelClosedWitness ==
    /\ pc = "iterate"
    /\ iter >= 2
    /\ RLess(RInt(4), RAdd(RMul(zReal, zReal), RMul(zImag, zImag)))

----------------------------------------------------------------------------
(* C19 -- black means in the set.  A pixel is black (0, 0, 0) if and only  *)
(* if its iteration count is maxIterations; a pixel whose point escaped    *)
(* gets a colour that is not black.                                        *)

BlackIffInSet ==
    \A k \in 1..Len(written) :
        LET w == written[k]
            black == /\ DataAt(imageData, w.index) = 0
                     /\ DataAt(imageData, w.index + 1) = 0
                     /\ DataAt(imageData, w.index + 2) = 0
        IN  black <=> (w.iterations = renderer.maxIterations)

\* a render has written a pixel of the set and a pixel that escaped
BlackIffInSetWitness ==
    /\ pc = "done"
    /\ \E k \in 1..Len(written) :
           written[k].iterations = renderer.maxIterations
    /\ \E k \in 1..Len(written) :
           written[k].iterations < renderer.maxIterations

----------------------------------------------------------------------------
(* C20 -- the buffer.  A render fills a row-major buffer of exactly        *)
(* width * height RGBA values: every pixel (x, y) of the grid is written   *)
(* exactly once, at byte offset (y * width + x) * 4, and the alpha byte of *)
(* every pixel is 255.                                                     *)

BufferFilledRowMajor ==
    pc = "done" =>
        LET w == renderer.width
            h == renderer.height
        IN  /\ imageData.length = w * h * 4
            /\ DOMAIN imageData.data = 0..(w * h * 4 - 1)
            /\ Len(written) = w * h
            /\ \A px \in 0..(w - 1), py \in 0..(h - 1) :
                   /\ Cardinality({ k \in 1..Len(written) :
                                      /\ written[k].x = px
                                      /\ written[k].y = py }) = 1
                   /\ \A k \in 1..Len(written) :
                          (written[k].x = px /\ written[k].y = py) =>
                              written[k].index = (py * w + px) * 4
                   /\ DataAt(imageData, (py * w + px) * 4 + 3) = 255

\* a render of a buffer with more columns than rows has returned
BufferFilledRowMajorWitness ==
    /\ pc = "done"
    /\ renderer.width = 3 /\ renderer.height = 2

----------------------------------------------------------------------------
(* Vocabulary of the properties of getColor *)

\* the bytes of the pixel whose first byte is at `index'
PixelAt(img, index) ==
    [r |-> DataAt(img, index), g |-> DataAt(img, index + 1),
     b |-> DataAt(img, index + 2)]

\* the k-th write is of an iteration count of 0 that is not the limit
WroteCountZero(k) ==
    written[k].iterations = 0 /\ renderer.maxIterations > 0

----------------------------------------------------------------------------
(* C21 -- colour of the iteration count 0.  An iteration count of 0 maps   *)
(* to hue 0, which at saturation 0.8 and lightness 0.5 gives the RGB value *)
(* (229, 26, 26).                                                          *)

----------------------------------------------------------------------------
(* C22 -- invalid requests.  render rejects a request with a non-positive  *)
(* width, a non-positive height or a non-positive maxIterations: it        *)
(* produces no pixel buffer for it and does not return one.                *)

\* the renderer was built with a non-positive size or limit
InvalidRequest ==
    \/ renderer.width <= 0
    \/ renderer.height <= 0
    \/ renderer.maxIterations <= 0

InvalidRequestRejected ==
    InvalidRequest => (imageData = NULL /\ pc # "done")

----------------------------------------------------------------------------
(* Vocabulary of the properties of the pointer handlers *)

\* the step is a zoomToSelection that ran to its end: a view was pushed
ZoomComputed == Len(zoomHistory') > Len(zoomHistory)

\* the step is the release of the left button that ends a drag
DragReleased ==
    /\ selectionSquare # NULL
    /\ leftHeld /\ ~leftHeld' /\ ~rightHeld
    /\ isDrawing

\* normSize of zoomToSelection for the stored square
NormSize == R(currentSquareSize, mandelbrotImage.width)

----------------------------------------------------------------------------
(* C23 -- no zoom on an empty selection.  A zoom-in is never computed with *)
(* normSize <= 0: the release of a selection whose size is <= 0 is turned  *)
(* down (the pointerup handler takes its branch that clears the selection  *)
(* and calls no zoom) and leaves the current view bounds and the zoom      *)
(* history unchanged.                                                      *)

----------------------------------------------------------------------------
(* Vocabulary of the properties of a whole render *)

\* the step belongs to a call of render()
RenderWorks ==
    \/ pc \in { "loop", "iterate", "write" }
    \/ pc = "render" /\ pc' = "loop"

\* the step is the return of render()
RenderReturns == pc # "done" /\ pc' = "done"

\* the colour the request of renderer r gives pixel (px, py): the point of
\* the pixel, its escape time by the reference, the colour of that count
RequestColor(r, px, py) ==
    LET adj == RenderAdjust(r.viewBounds, r.width, r.height)
        point == PixelToPlane(adj, r.width, r.height, RInt(px), RInt(py))
    IN  GetColor(FirstEscape(point.real, point.imag, 0, r.maxIterations),
                 r.maxIterations)

\* image data img holds, pixel by pixel, what the request of r gives
HoldsRequest(img, r) ==
    /\ img.width = r.width /\ img.height = r.height
    /\ DOMAIN img.data = 0..(r.width * r.height * 4 - 1)
    /\ \A px \in 0..(r.width - 1), py \in 0..(r.height - 1) :
           /\ PixelAt(img, (py * r.width + px) * 4) = RequestColor(r, px, py)
           /\ DataAt(img, (py * r.width + px) * 4 + 3) = 255

----------------------------------------------------------------------------
(* C24 -- render is pure with respect to its request.  The buffer a render *)
(* returns is the one its width, height, maxIterations and view bounds     *)
(* determine, whatever renders and changes of bounds came before it on the *)
(* renderer; and a render changes neither the view bounds nor the          *)
(* dimensions of the renderer.                                             *)

RenderIsPure ==
    [][/\ RenderWorks => renderer' = renderer
       /\ RenderReturns => HoldsRequest(imageData', renderer')]_vars

\* a second render has returned on a renderer of 3 x 2 pixels
RenderIsPureWitness ==
    /\ pc = "done"
    /\ renders = 2
    /\ renderer.width = 3 /\ renderer.height = 2
    /\ renderer.viewBounds # DefaultBounds
    /\ returned = DefaultBounds

----------------------------------------------------------------------------
(* Vocabulary of the properties of the deferred renders *)

\* the step is a call of handleResize: a render is scheduled with no button
\* of the pointer changing
ResizeCalled ==
    /\ created /\ created'
    /\ leftHeld' = leftHeld /\ rightHeld' = rightHeld
    /\ Len(timers') > Len(timers)

\* the step is a deferred render that fires
RenderFires == Len(timers') < Len(timers)

\* the renderer of the scene renders bounds b on the square of a
\* width x height panel
RendersView(r, b, width, height) ==
    /\ r # NULL
    /\ r.viewBounds = b
    /\ r.width = SquareSize(width, height)
    /\ r.height = SquareSize(width, height)

----------------------------------------------------------------------------
(* C25 -- a resize keeps the view.  handleResize changes neither the       *)
(* current view bounds nor the zoom history; it schedules a render with    *)
(* the new dimensions of the camera, and a scheduled render that fires     *)
(* renders the current bounds, which it leaves as they are, at the         *)
(* dimensions it was scheduled with.                                       *)

ResizeKeepsView ==
    [][/\ ResizeCalled =>
              /\ UNCHANGED <<currentViewBounds, zoomHistory>>
              /\ timers' = Append(timers, [width |-> camW', height |-> camH'])
       /\ RenderFires =>
              /\ UNCHANGED <<currentViewBounds, zoomHistory>>
              /\ RendersView(mandelbrotRenderer', currentViewBounds,
                             Head(timers).width, Head(timers).height)]_vars

\* after a zoom-in the window was resized to a panel of another size than
\* the one displayed: the re-render is pending
ResizeKeepsViewWitness ==
    /\ Len(zoomHistory) = 1
    /\ mandelbrotImage # NULL
    /\ timers # <<>>
    /\ timers[Len(timers)] = [width |-> camW, height |-> camH]
    /\ mandelbrotImage.width # SquareSize(camW, camH)

----------------------------------------------------------------------------
(* C26 -- the bounds stay a rectangle.  In every reachable state the       *)
(* current view bounds and every entry of the zoom history have            *)
(* realMin < realMax and imagMin < imagMax.                                *)

\* b is a rectangle of the plane with a positive width and height
ValidRectangle(b) ==
    IF IsDouble(b.realMin)
    THEN DoubleLess(b.realMin, b.realMax) /\ DoubleLess(b.imagMin, b.imagMax)
    ELSE RLess(b.realMin, b.realMax) /\ RLess(b.imagMin, b.imagMax)

BoundsStayRectangles ==
    /\ ValidRectangle(currentViewBounds)
    /\ \A i \in 1..Len(zoomHistory) : ValidRectangle(zoomHistory[i])

\* two zoom-ins and a zoom-out have left a zoomed view over a history
BoundsStayRectanglesWitness ==
    /\ Len(zoomHistory) = 1
    /\ lastViewCall = "zoomOut"
    /\ currentViewBounds # DefaultBounds
    /\ zoomHistory[1] = DefaultBounds

----------------------------------------------------------------------------
(* C27 -- the selection is a square anchored at the click point.  After    *)
(* every pointer move during a drag from (startX, startY) to (x, y), the   *)
(* stored square has side min(|x - startX|, |y - startY|), has             *)
(* (startX, startY) as one of its corners, and lies inside the rectangle   *)
(* spanned by the click point and the pointer.                             *)

\* the handlers are registered and a drag is going on
Dragging ==
    selectionSquare # NULL /\ isDrawing /\ PointerIsDown(leftHeld, rightHeld)

\* v lies between a and b, whichever is the greater
Between(v, a, b) == Min(a, b) <= v /\ v <= (IF a < b THEN b ELSE a)

----------------------------------------------------------------------------
(* C28 -- the bounds accessor returns a copy.  Changing the object that    *)
(* getViewBounds returned changes neither the bounds of the renderer, which *)
(* a later render reads, nor what a later getViewBounds returns: the       *)
(* renderer keeps its own object.                                          *)

----------------------------------------------------------------------------
(* C29 -- a release zooms only on the square of its own drag.  A zoom-in   *)
(* is triggered by a left-button release only if a square was drawn since  *)
(* the left button went down and its size is greater than 10 pixels: a     *)
(* press and release with no pointer movement in between computes no zoom, *)
(* whatever squares earlier drags produced.                                *)

ZoomsOnlyOnSquareOfTheDrag ==
    [][ZoomComputed =>
          (drawnInDrag = "yes" /\ currentSquareSize > MinSquareSize)]_vars

----------------------------------------------------------------------------
(* C30 -- the display catches up with the view.  Once every scheduled      *)
(* deferred render has fired (they fire in the order they were scheduled)  *)
(* and no further event has come, the displayed image was rendered from    *)
(* the current view bounds at the most recent size of the panel: whenever  *)
(* no deferred render is pending after create(), the renderer of the scene *)
(* holds the current bounds and the image is the square of the camera,     *)
(* centred in it.                                                          *)

\* every deferred render scheduled since create() has fired
AllRendersFired == created /\ timers = <<>>

DisplayCatchesUp ==
    AllRendersFired =>
        /\ RendersView(mandelbrotRenderer, currentViewBounds, camW, camH)
        /\ SameObject(aliases, RefRenderer, RefCurrent)
        /\ mandelbrotImage =
               [x |-> RHalf(camW), y |-> RHalf(camH),
                width |-> SquareSize(camW, camH),
                height |-> SquareSize(camW, camH)]

\* on the panel whose square is 32: the renders of two zoom-ins and of a
\* zoom-out have all fired
DisplayCatchesUpWitness ==
    /\ AllRendersFired
    /\ lastViewCall = "zoomOut"
    /\ Len(zoomHistory) = 1
    /\ currentViewBounds # DefaultBounds
    /\ mandelbrotImage.width = 32

----------------------------------------------------------------------------
(* C31 -- the loading feedback is transient.  Once every scheduled         *)
(* deferred render has fired, no loading text created by create,           *)
(* handleResize, zoomToSelection or zoomOut remains undestroyed, whatever  *)
(* zoom-ins, zoom-outs and resizes came while a render was pending.        *)

LoadingTextsTransient == timers = <<>> => texts = {}

----------------------------------------------------------------------------
(* C32 -- the iteration count is positive.  mandelbrotIterations ends      *)
(* after at most maxIterations passes of its loop and, for every point and *)
(* every maxIterations >= 1, returns a value r with 1 <= r <=              *)
(* maxIterations: z starts at 0, so the escape test cannot succeed in the  *)
(* pass i = 0 and the count 0 is never produced.                           *)

IterationCountPositive ==
    /\ pc = "iterate" => iter <= renderer.maxIterations
    /\ (KernelReturned /\ renderer.maxIterations >= 1) =>
           /\ iter <= renderer.maxIterations
           /\ 1 <= iterations
           /\ iterations <= renderer.maxIterations

\* a point outside the circle of radius 2 has escaped in the second pass,
\* the first in which the escape test can succeed
IterationCountPositiveWitness ==
    /\ KernelReturned
    /\ RLess(RInt(4), RAdd(RMul(real, real), RMul(imag, imag)))
    /\ iterations = 1
    /\ renderer.maxIterations = 4

----------------------------------------------------------------------------
(* C33 -- the view stays square.  Every render of the scene uses a square  *)
(* buffer and the initial bounds have equal ranges, so after any sequence  *)
(* of zoom-ins and zoom-outs the current bounds satisfy realMax - realMin  *)
(* = imagMax - imagMin, and the aspect-ratio adjustment of the renderer    *)
(* does not change the bounds it is given.                                 *)

\* realMax - realMin = imagMax - imagMin
EqualRanges(b) ==
    IF IsDouble(b.realMin)
    THEN DoubleSub(b.realMax, b.realMin) = DoubleSub(b.imagMax, b.imagMin)
    ELSE RSub(b.realMax, b.realMin) = RSub(b.imagMax, b.imagMin)

\* the adjustment for a square buffer gives back the bounds b (in binary64
\* by the copy of the adjustment that zoomToSelection holds, which has the
\* statements of the renderer's)
SquareAdjustKeeps(b) ==
    IF IsDouble(b.realMin) THEN ZoomAdjust64(b, 1, 1) = b
    ELSE RenderAdjust(b, 1, 1) = b

ViewStaysSquare ==
    /\ EqualRanges(currentViewBounds)
    /\ SquareAdjustKeeps(currentViewBounds)
    /\ mandelbrotRenderer # NULL =>
           mandelbrotRenderer.width = mandelbrotRenderer.height

----------------------------------------------------------------------------
(* C34 -- a zoom-in never shows more than was displayed.  For a selection  *)
(* that lies inside the displayed buffer, with 0 < size <= width, the new  *)
(* bounds are contained in the adjusted rectangle of the previous bounds   *)
(* and each new range is at most the corresponding adjusted range.         *)

\* the stored square lies inside the displayed image, with 0 < size <= width
SelectionInsideBuffer ==
    LET left == SquareLeftInTexture(mandelbrotImage, currentSquareX)
        top == SquareTopInTexture(mandelbrotImage, currentSquareY)
        size == RInt(currentSquareSize)
    IN  /\ 0 < currentSquareSize
        /\ currentSquareSize <= mandelbrotImage.width
        /\ RLeq(RInt(0), left)
        /\ RLeq(RInt(0), top)
        /\ RLeq(RAdd(left, size), RInt(mandelbrotImage.width))
        /\ RLeq(RAdd(top, size), RInt(mandelbrotImage.height))

\* a <= b, in the arithmetic the numbers are kept in
NumLeq(a, b) == IF IsDouble(a) THEN ~DoubleLess(b, a) ELSE RLeq(a, b)

\* b - a
NumSub(b, a) == IF IsDouble(a) THEN DoubleSub(b, a) ELSE RSub(b, a)

\* the rectangle new lies in the rectangle adj and has no greater ranges
ContainedIn(new, adj) ==
    /\ NumLeq(adj.realMin, new.realMin)
    /\ NumLeq(new.realMax, adj.realMax)
    /\ NumLeq(adj.imagMin, new.imagMin)
    /\ NumLeq(new.imagMax, adj.imagMax)
    /\ NumLeq(NumSub(new.realMax, new.realMin),
              NumSub(adj.realMax, adj.realMin))
    /\ NumLeq(NumSub(new.imagMax, new.imagMin),
              NumSub(adj.imagMax, adj.imagMin))

\* the adjusted rectangle of the bounds b for the displayed image
AdjustedFor(b, image) ==
    IF IsDouble(b.realMin) THEN ZoomAdjust64(b, image.width, image.height)
    ELSE ZoomAdjust(b, image.width, image.height)

ZoomStaysInside ==
    [][(ZoomComputed /\ SelectionInsideBuffer) =>
          ContainedIn(currentViewBounds',
                      AdjustedFor(currentViewBounds, mandelbrotImage))]_vars

----------------------------------------------------------------------------
(* C35 -- the pointer handlers are registered once.  setupMouseInput runs  *)
(* exactly once, in the first render that completes, however many renders  *)
(* follow: no pointer event is handled before the first render, one        *)
(* pointer-up causes at most one zoom-in and one press of the right button *)
(* at most one zoom-out.                                                   *)

\* the step runs setupMouseInput: the graphics object of the selection is
\* created and the three handlers are registered
SetupRuns == selectionSquare = NULL /\ selectionSquare' # NULL

\* the step is the first render that completes
FirstRenderCompletes == RenderFires /\ mandelbrotImage = NULL

\* the step is a button going down or up
ButtonEvent == leftHeld' # leftHeld \/ rightHeld' # rightHeld

HandlersRegisteredOnce ==
    [][/\ SetupRuns <=> FirstRenderCompletes
       /\ selectionSquare # NULL => selectionSquare' # NULL
       /\ (ButtonEvent /\ selectionSquare = NULL) =>
              UNCHANGED <<pointerVars, viewVars, displayVars, selectionSquare,
                          currentSquareSize, currentSquareX, currentSquareY,
                          loadingText, texts, timers>>
       /\ (leftHeld' # leftHeld \/ (rightHeld /\ ~rightHeld')) =>
              /\ Len(zoomHistory') >= Len(zoomHistory)
              /\ Len(zoomHistory') <= Len(zoomHistory) + 1
              /\ Len(timers') <= Len(timers) + 1
       /\ (~rightHeld /\ rightHeld') =>
              /\ Len(zoomHistory') <= Len(zoomHistory)
              /\ Len(zoomHistory') >= Len(zoomHistory) - 1
              /\ Len(timers') <= Len(timers) + 1]_vars

\* the renders of a zoom-in and of a zoom-out have followed the first one,
\* and the right button of the zoom-out is still down
HandlersRegisteredOnceWitness ==
    /\ selectionSquare # NULL
    /\ lastViewCall = "zoomOut"
    /\ zoomHistory = <<>>
    /\ timers = <<>>
    /\ rightHeld
    /\ images = 1

----------------------------------------------------------------------------
(* C36 -- the pointer state machine.  Once the handlers are registered,    *)
(* isDrawing is true exactly from a press of the left button until the     *)
(* next release of the left button; zoomToSelection is invoked only on a   *)
(* release of the left button that comes while isDrawing is true, and the  *)
(* selection square is updated only by pointer moves that come while       *)
(* isDrawing is true.                                                      *)

\* the step is a press, or a release, of the left button that the handlers
\* receive
LeftPressed == selectionSquare # NULL /\ ~leftHeld /\ leftHeld'
LeftReleased == selectionSquare # NULL /\ leftHeld /\ ~leftHeld'

\* the step changes the stored square
SquareUpdated ==
    <<currentSquareSize, currentSquareX, currentSquareY>>' #
        <<currentSquareSize, currentSquareX, currentSquareY>>

PointerStateMachine ==
    [][/\ LeftPressed => isDrawing'
       /\ LeftReleased => ~isDrawing'
       /\ isDrawing' # isDrawing => (LeftPressed \/ LeftReleased)
       /\ ZoomComputed => (LeftReleased /\ isDrawing)
       /\ SquareUpdated =>
              (isDrawing /\ UNCHANGED <<leftHeld, rightHeld, timers>>)]_vars

----------------------------------------------------------------------------
(* C37 -- one image, one texture.  At most one Mandelbrot image object and *)
(* one texture with the key 'mandelbrot' exist at any time: every render   *)
(* destroys the previous image and removes the previous texture before it  *)
(* creates the new ones, whatever the number of deferred renders queued.   *)

OneImageOneTexture ==
    /\ images <= 1
    /\ images = IF mandelbrotImage = NULL THEN 0 ELSE 1
    /\ textureKeys \subseteq {"mandelbrot"}
    /\ Cardinality(textureKeys) = images

\* the renders of two zoom-ins have fired after the first render, and what
\* is displayed is the view of the second
OneImageOneTextureWitness ==
    /\ images = 1
    /\ textureKeys = {"mandelbrot"}
    /\ timers = <<>>
    /\ Len(zoomHistory) = 2
    /\ mandelbrotRenderer.viewBounds = currentViewBounds

====
